---------------------------- MODULE Spec2Model ----------------------------
(***************************************************************************)
(* Model of the Telegram video-downloader bots:                            *)
(*   - RenderVideoBot   (src/render_bot.py), webhook variant               *)
(*   - ServerVideoBot   (src/server_bot.py), polling variant with Premium  *)
(*   - the Flask webhook endpoint shared by render_bot.py and test_bot.py  *)
(*                                                                         *)
(* Conventions.                                                            *)
(*   * File sizes are counted in KiB (1 MB = 1024), so that 2 GB fits      *)
(*     TLC's integers.  Every size comparison of the code is kept as is.   *)
(*   * Texts sent to the chat are modelled by one label per text template  *)
(*     of the source.                                                      *)
(*   * One update handler runs at a time; req holds its local variables    *)
(*     and its position req.pc.  Each call to the chat framework, the      *)
(*     extraction library or the file system either returns or raises,     *)
(*     chosen nondeterministically.                                        *)
(***************************************************************************)
EXTENDS Integers, Sequences, FiniteSets, TLC

\* ---------------------------------------------------------------- bounds
MaxUsers == 2
MaxToggles == 3
MaxChunks == 2
MaxSplitChunks == 5
MaxWebhooks == 2
MaxArgs == 2
MaxTasks == 3
MaxFormats == 2

\* ------------------------------------------------------ program constants
\* render_bot.py:47   self.max_file_size = 50 * 1024 * 1024            (KiB)
max_file_size == 50 * 1024
\* server_bot.py:43   self.max_file_size_regular = 50 * 1024 * 1024    (KiB)
max_file_size_regular == 50 * 1024
\* server_bot.py:44   self.max_file_size_premium = 2 * 1024 * 1024 * 1024
max_file_size_premium == 2 * 1024 * 1024
\* server_bot.py:45   self.chunk_size = 45 * 1024 * 1024               (KiB)
chunk_size == 45 * 1024

\* render_bot.py:553  if fmt.get('height', 0) <= 720
MaxHeight == 720

\* Longest text the chat platform accepts in one message.
MaxMessageLen == 4 * 1024

Users == 1..MaxUsers

\* Sizes the extraction metadata may report (0 = unknown).
ReportedSizes ==
  {0, max_file_size - 1, max_file_size, max_file_size + 1,
   max_file_size_premium, max_file_size_premium + 1}

\* Sizes the downloaded video may really have on disk.
DiskSizes == {k * chunk_size + d : k \in 0..MaxChunks, d \in {0, 1}} \ {0}

\* Sizes handed to _split_file when it is exercised on its own.
SplitSizes ==
  {k * chunk_size + d : k \in 0..MaxSplitChunks, d \in {0, 1, chunk_size - 1}}

VARIABLES
  program,        \* the script this process runs: render_bot | server_bot | test_bot
  \* --- render_bot.main / Flask thread
  mainpc,         \* position of main()
  bot_instance,   \* the global bot_instance is set
  proc,           \* environment variables read, webhook registered, temp_dir
  httpResp,       \* the last answer of the web server
  scheduled,      \* updates handed to application.process_update
  \* --- ServerVideoBot state
  premium_users,  \* self.premium_users
  toggles,        \* number of /premium commands per user since start
  ptasks,         \* premium_command coroutines of updates processed concurrently
  \* --- the update being handled: locals of the handler and its effects
  req

vars == <<program, mainpc, bot_instance, proc, httpResp, scheduled,
          premium_users, toggles, ptasks, req>>

\* Files of temp_dir and media of the chat are named <<kind, number>>; the
\* number is the part number of a split part and 0 otherwise.
VideoFile == <<"video", 0>>
ThumbFile == <<"thumbnail", 0>>
PartFile(i) == <<"part", i>>

NoInfo == [kind |-> "none", error_type |-> "", file_size |-> 0]
NoResult == [ok |-> FALSE, files |-> {}]

\* No request of the web server has been answered yet.
NoResponse ==
  [path |-> "none", inst |-> FALSE, decoded |-> FALSE, status |-> 0, resp |-> "none"]

\* A value looked up in a dict of the extraction library: the key is absent,
\* or it is present with None, or it is present with a number.
Absent == [k |-> "absent", v |-> 0]
None == [k |-> "none", v |-> 0]
Num(n) == [k |-> "int", v |-> n]

\* An info dict without 'formats', 'filesize' and 'filesize_approx'.
EmptyInfo == [formats |-> <<>>, filesize |-> Absent, filesize_approx |-> Absent]

\* The handler record before an update is dispatched.
ReqIdle ==
  [ bot |-> "none",          \* "render" | "server" | "test" | "none"
    pc |-> "idle",           \* position of the handler
    user |-> 0,              \* update.effective_user.id (ServerVideoBot reads it)
    cmd |-> "none",          \* the handler function the dispatcher entered
    args |-> 0,              \* len(context.args) of a command handler
    text |-> <<>>,           \* the url: message text of handle_url, context.args[0]
    reply |-> "none",        \* reply_text of a command without status message
    replies |-> 0,           \* reply_text calls that returned
    download |-> FALSE,      \* download=True / False of _process_video_url
    attempts |-> <<>>,       \* presets tried by get_video_info, in order
    failMsg |-> {},          \* keyword classes in the message of the last failed preset
    attempt |-> 0,           \* 'attempt' of the dict get_video_info returned (0: no such key)
    flags |-> {},            \* what extract_info said of the video checked by /check
    info |-> EmptyInfo,      \* the dict extract_info returned to get_video_info
    file_size |-> Absent,    \* the local file_size of get_video_info at its return
    altCalls |-> 0,          \* calls of _try_alternative_extraction
    video_info |-> NoInfo,   \* the local video_info
    info1 |-> NoInfo,        \* the value get_video_info returned
    is_premium |-> FALSE,    \* local is_premium of the request
    result |-> NoResult,     \* result of _download_video
    downloadCalls |-> 0,     \* calls of _download_video
    temp_dir |-> {},         \* files of this request present in temp_dir
    diskSize |-> 0,          \* real size of the downloaded video file
    statusText |-> "none",   \* text shown by the status message, "deleted"
    lastEdit |-> "none",     \* last text passed to status_message.edit_text
    sent |-> {},             \* media delivered to the chat
    sentSize |-> 0,          \* size of the file that reached reply_video
    excMsg |-> "",           \* branch of the except clause for the exception caught
    excLen |-> 0,            \* len(str(e)) of the exception being handled
    meta_len |-> 0,          \* len(title) + len(uploader) of the metadata
    errLen |-> 0,            \* length of the last error text passed to the chat
    raised |-> FALSE,        \* an exception propagated out of the handler
    statusFailed |-> FALSE,  \* an edit_text / delete of the status message raised
    splitPos |-> 0,          \* read position of input_file in _split_file
    parts |-> <<>>,          \* parts written so far (the returned list)
    splitFailed |-> FALSE,   \* the except branch of _split_file was taken
    parts_count |-> 0,       \* number of parts announced before splitting
    part_i |-> 0,            \* index of the part being uploaded
    partLog |-> <<>> ]       \* upload attempts in order: <<i, "ok"|"failed">>

Init ==
  /\ program \in {"render_bot", "server_bot", "test_bot"}
  /\ mainpc = "start" /\ bot_instance = FALSE
  /\ \E token \in BOOLEAN, url \in BOOLEAN :
       /\ program = "server_bot" => ~url
       /\ proc = [token |-> token, webhook_url |-> url, webhook_set |-> FALSE,
                  temp_dir |-> FALSE]
  /\ httpResp = NoResponse /\ scheduled = 0
  /\ premium_users = {} /\ toggles = [u \in Users |-> 0] /\ ptasks = <<>>
  /\ req = ReqIdle

\* ------------------------------------------------ render_bot.main, webhook

\* Variant: only the token is required.
EnvComplete_TokenOnly(token, webhook_url) == token

\* Neither `if not token: return` nor `if not webhook_url: return` is taken.
EnvComplete(token, webhook_url) == token /\ webhook_url

\* main(): token / webhook_url read from the environment; a missing one
\* returns before the bot is created.  The constructor makes temp_dir.
MainStart ==
  /\ program \in {"render_bot", "test_bot"}
  /\ mainpc = "start"
  /\ IF EnvComplete(proc.token, proc.webhook_url)
       THEN /\ bot_instance' = TRUE /\ mainpc' = "created"
            /\ proc' = [proc EXCEPT !.temp_dir = TRUE]
       ELSE /\ bot_instance' = bot_instance /\ mainpc' = "returned"
            /\ proc' = proc
  /\ UNCHANGED <<program, httpResp, scheduled, premium_users, toggles, ptasks, req>>

\* await bot_instance.application.initialize()
MainInitialize ==
  /\ mainpc = "created"
  /\ mainpc' = "initialized"
  /\ UNCHANGED <<program, bot_instance, proc, httpResp, scheduled,
                 premium_users, toggles, ptasks, req>>

\* await bot_instance.setup_webhook(): a set_webhook failure is logged only.
MainSetupWebhook ==
  /\ mainpc = "initialized"
  /\ \E ok \in BOOLEAN : proc' = [proc EXCEPT !.webhook_set = ok]
  /\ mainpc' = "webhook_set"
  /\ UNCHANGED <<program, bot_instance, httpResp, scheduled,
                 premium_users, toggles, ptasks, req>>

\* flask_thread.start(); main then sleeps in its keep-alive loop.
MainStartFlask ==
  /\ mainpc = "webhook_set"
  /\ mainpc' = "serving"
  /\ UNCHANGED <<program, bot_instance, proc, httpResp, scheduled,
                 premium_users, toggles, ptasks, req>>

\* The keep-alive loop ends (the task is cancelled or interrupted): finally:
\* await bot_instance.application.shutdown().  temp_dir and the files in it
\* are not touched; the handler in progress ends with the process.
MainStop ==
  /\ mainpc = "serving"
  /\ mainpc' = "stopped"
  /\ req' = [ReqIdle EXCEPT !.bot = req.bot, !.temp_dir = req.temp_dir]
  /\ UNCHANGED <<program, bot_instance, proc, httpResp, scheduled,
                 premium_users, toggles, ptasks>>

\* Variant: the web server answers from the start of the process.
WebServerUp_FromStart(pc) == pc \notin {"returned", "stopped"}

\* The web server exists from flask_thread.start() (a daemon thread) to the
\* end of the process.
WebServerUp(pc) == pc = "serving"

\* The thread that runs the asyncio event loop: asyncio.run(main()).
LoopThread == "main"

\* The thread that runs the Flask view functions: threading.Thread(run_flask).
FlaskThread == "flask"

\* Variant: create_task works from every thread.
HasRunningLoop_Always(thread) == TRUE

\* asyncio.create_task needs a running event loop in the calling thread and
\* raises RuntimeError otherwise.
HasRunningLoop(thread) == thread = LoopThread

\* webhook(): the view function, run in `thread`.  decodeOk: Update.de_json
\* returned.  Gives the HTTP answer and the number of updates handed to
\* application.process_update.
WebhookResult(inst, decodeOk, thread) ==
  IF ~inst THEN [resp |-> "OK", status |-> 200, tasks |-> 0]
  ELSE IF ~decodeOk THEN [resp |-> "Error", status |-> 500, tasks |-> 0]
  ELSE IF ~HasRunningLoop(thread) THEN [resp |-> "Error", status |-> 500, tasks |-> 0]
  ELSE [resp |-> "OK", status |-> 200, tasks |-> 1]

\* POST /webhook handled by the web-server thread; inst is what
\* `if bot_instance:` found.
Webhook ==
  /\ WebServerUp(mainpc)
  /\ scheduled < MaxWebhooks
  /\ \E decodeOk \in BOOLEAN :
       LET r == WebhookResult(bot_instance, decodeOk, FlaskThread) IN
         /\ httpResp' = [path |-> "webhook", inst |-> bot_instance,
                         decoded |-> bot_instance /\ decodeOk,
                         status |-> r.status, resp |-> r.resp]
         /\ scheduled' = scheduled + r.tasks
  /\ UNCHANGED <<program, mainpc, bot_instance, proc, premium_users, toggles, ptasks, req>>

\* Variant: health reports on the webhook registration.
HealthResult_Registered(inst, registered) ==
  IF registered THEN [status |-> 200, resp |-> "healthy"]
  ELSE [status |-> 503, resp |-> "unhealthy"]

\* health(): return {'status': 'healthy', ...}, 200
HealthResult(inst, registered) == [status |-> 200, resp |-> "healthy"]

\* GET /health handled by the web-server thread.
Health ==
  /\ WebServerUp(mainpc)
  /\ LET r == HealthResult(bot_instance, proc.webhook_set) IN
       httpResp' = [path |-> "health", inst |-> FALSE, decoded |-> FALSE,
                    status |-> r.status, resp |-> r.resp]
  /\ UNCHANGED <<program, mainpc, bot_instance, proc, scheduled,
                 premium_users, toggles, ptasks, req>>

\* ------------------------------------------------ server_bot.main, run

\* main(): without the token it returns; else the bot is made (with its
\* temp_dir) and run_polling starts.
ServerMain ==
  /\ program = "server_bot"
  /\ mainpc = "start"
  /\ IF proc.token
       THEN mainpc' = "polling" /\ proc' = [proc EXCEPT !.temp_dir = TRUE]
       ELSE mainpc' = "returned" /\ proc' = proc
  /\ UNCHANGED <<program, bot_instance, httpResp, scheduled,
                 premium_users, toggles, ptasks, req>>

\* shutil.rmtree(self.temp_dir, ignore_errors=True)
RemoveTree(p) == [p EXCEPT !.temp_dir = FALSE]

\* run(): run_polling returns or is interrupted; finally: the temporary
\* directory is removed with everything in it.
ServerStop ==
  /\ program = "server_bot"
  /\ mainpc = "polling"
  /\ mainpc' = "stopped"
  /\ proc' = RemoveTree(proc)
  /\ req' = [ReqIdle EXCEPT !.bot = req.bot,
                            !.temp_dir = IF proc'.temp_dir THEN req.temp_dir ELSE {}]
  /\ UNCHANGED <<program, bot_instance, httpResp, scheduled,
                 premium_users, toggles, ptasks>>

\* --------------------------------------------- ServerVideoBot.premium_command

\* Variant: /premium switches every user at once.
PremiumToggle_Everyone(S, u) == IF u \in S THEN {} ELSE Users

\* Variant: /premium only ever adds the user.
PremiumToggle_AddOnly(S, u) == S \cup {u}

\* if user_id in self.premium_users: remove  else: add
PremiumToggle(S, u) == IF u \in S THEN S \ {u} ELSE S \cup {u}

\* mode named in the reply, decided by the membership before the toggle
PremiumMode(S, u) == IF u \in S THEN "mode_regular" ELSE "mode_premium"

\* Number of /premium commands handled so far, over all users.
RECURSIVE SumOver(_, _)
SumOver(f, S) ==
  IF S = {} THEN 0
  ELSE LET x == CHOOSE y \in S : TRUE IN f[x] + SumOver(f, S \ {x})

TotalToggles(t) == SumOver(t, DOMAIN t)

\* premium_command: the toggle, then one reply_text naming the mode.
PremiumCommand ==
  /\ program = "server_bot"
  /\ mainpc = "polling"
  /\ req.pc = "idle"
  /\ \E u \in Users :
       /\ TotalToggles(toggles) < MaxToggles
       /\ premium_users' = PremiumToggle(premium_users, u)
       /\ toggles' = [toggles EXCEPT ![u] = @ + 1]
       /\ req' = [ReqIdle EXCEPT !.bot = "server", !.pc = "done", !.user = u,
                                 !.cmd = "premium_command", !.replies = 1,
                                 !.reply = PremiumMode(premium_users, u)]
  /\ UNCHANGED <<program, mainpc, bot_instance, proc, httpResp, scheduled, ptasks>>

\* ------------------------------------------------------- common helpers

\* The frame of a handler step: everything but req.
OnlyReq ==
  UNCHANGED <<program, mainpc, bot_instance, proc, httpResp, scheduled,
              premium_users, toggles, ptasks>>

Min(a, b) == IF a < b THEN a ELSE b

\* error_msg[:100]
TruncLen == 100

\* Lengths an exception message may have: one that [:100] leaves whole and
\* one as long as a whole chat message.
MsgLens == {TruncLen, MaxMessageLen}

\* len(title) + len(uploader) of the metadata the extraction library returns
\* (every template inserts each of them once).
MetaLens == {2, MaxMessageLen}

\* Length of the error text `text` built by `bot` from an exception message
\* of msgLen characters and metadata of metaLen characters: the characters of
\* the template plus those of the inserted values (a formatted number is
\* counted as 8 characters, the platform, duration and views as 16 each).
\* Progress and information texts are not measured: 0.
ErrorTextLen(bot, text, msgLen, metaLen) ==
  CASE text = "exc_generic" ->
         IF bot = "render" THEN 13 + Min(msgLen, TruncLen) ELSE 10 + msgLen
    [] text = "send_error" -> 19 + msgLen
    [] text = "too_big" -> 60 + 8 + 8 + metaLen
    [] text = "too_big_use_premium" -> 73 + 8 + 93 + 21 + 8 + 3 * 16 + metaLen
    [] text = "no_info" -> IF bot = "render" THEN 310 ELSE 32
    [] text = "err_rate_limited" -> 223
    [] text = "err_age_restricted" -> 244
    [] text = "err_live_content" -> 210
    [] text = "err_geo_blocked" -> 134
    [] text = "err_unavailable" -> 99
    [] text = "exc_age_gated" -> 36
    [] text = "exc_private" -> 29
    [] text = "exc_region" -> 34
    [] text = "download_error" -> 19
    [] text = "video_not_found" -> 22
    [] text = "split_error" -> 17
    [] text = "chk_no_info" -> 40
    [] text = "chk_age" -> 112
    [] text = "chk_live" -> 93
    [] text = "chk_problem" -> 12 + 14
    [] text = "chk_error" -> 22 + Min(msgLen, TruncLen)
    [] OTHER -> 0

\* status_message.edit_text(text): the text is shown when the call returns.
EditStatus(r, text, ok) ==
  LET n == ErrorTextLen(r.bot, text, r.excLen, r.meta_len) IN
  [r EXCEPT !.lastEdit = text,
            !.statusText = IF ok THEN text ELSE @,
            !.statusFailed = IF ok THEN @ ELSE TRUE,
            !.errLen = IF n > 0 THEN n ELSE @]

\* Keywords the except clause of RenderVideoBot._process_video_url looks for
\* in the lower-cased exception message; a message is modelled by the set of
\* keywords it contains.
ExcKeywords == {"age-gated", "private", "region"}

\* Outcome of a call that may raise: it returns, or raises with a message.
CallOutcomes ==
  {[ok |-> TRUE, msg |-> {}, len |-> 0]}
    \cup {[ok |-> FALSE, msg |-> m, len |-> l] : m \in SUBSET ExcKeywords, l \in MsgLens}

\* ServerVideoBot never looks into the exception message.
ServerOutcomes ==
  {[ok |-> TRUE, msg |-> {}, len |-> 0]}
    \cup {[ok |-> FALSE, msg |-> {}, len |-> l] : l \in MsgLens}

\* The if / elif chain of the except clause over the exception message.
RenderExceptText(msg) ==
  IF "age-gated" \in msg THEN "exc_age_gated"
  ELSE IF "private" \in msg THEN "exc_private"
  ELSE IF "region" \in msg THEN "exc_region"
  ELSE "exc_generic"

\* The branch the except clause of _process_video_url takes for an exception
\* with message msg: the clause is entered, and the chain evaluated, in the
\* step that raises.  ServerVideoBot and TestVideoBot have one branch.
ExceptBranch(bot, msg) ==
  IF bot = "render" THEN RenderExceptText(msg) ELSE "exc_generic"

\* A call inside a try block raised: control passes to the except clause at
\* exceptpc with the exception o.
Raise(r, o, exceptpc) ==
  [r EXCEPT !.pc = exceptpc, !.excMsg = ExceptBranch(r.bot, o.msg),
            !.excLen = o.len]

\* An edit_text inside a try block: on return the handler goes on at nextpc,
\* on an exception control passes to the except clause at exceptpc.
TryEdit(r, text, o, nextpc, exceptpc) ==
  IF o.ok
    THEN [EditStatus(r, text, TRUE) EXCEPT !.pc = nextpc]
    ELSE Raise(EditStatus(r, text, FALSE), o, exceptpc)

\* The handler has returned; the dispatcher takes the next update.
HandlerReturn ==
  /\ req.pc = "done"
  /\ req' = ReqIdle
  /\ OnlyReq

\* ------------------------------------------------- commands and handle_url

\* A text is a sequence of one-character strings.  The letters that occur in
\* the supported domains, and their capitals, position by position.
Letters == <<"a", "b", "c", "e", "g", "i", "k", "m", "n", "o", "r", "s", "t",
             "u", "v", "w", "x", "y">>
Capitals == <<"A", "B", "C", "E", "G", "I", "K", "M", "N", "O", "R", "S", "T",
              "U", "V", "W", "X", "Y">>

\* Variant: the text is compared as it was typed.
Lower_Identity(text) == text

\* text.lower(): every capital becomes its letter, all else stays.
Lower(text) ==
  [i \in 1..Len(text) |->
     IF \E k \in 1..Len(Capitals) : Capitals[k] = text[i]
       THEN Letters[CHOOSE k \in 1..Len(Capitals) : Capitals[k] = text[i]]
       ELSE text[i]]

\* `sub in text`
Contains(text, sub) ==
  \E i \in 0..(Len(text) - Len(sub)) : SubSeq(text, i + 1, i + Len(sub)) = sub

\* The domain list of handle_url of RenderVideoBot and ServerVideoBot.
SupportedDomains ==
  { <<"y","o","u","t","u","b","e",".","c","o","m">>,
    <<"y","o","u","t","u",".","b","e">>,
    <<"v","k",".","c","o","m">>,
    <<"v","k",".","r","u">>,
    <<"t","i","k","t","o","k",".","c","o","m">>,
    <<"i","n","s","t","a","g","r","a","m",".","c","o","m">>,
    <<"t","w","i","t","t","e","r",".","c","o","m">>,
    <<"x",".","c","o","m">> }

\* TestVideoBot.handle_url looks for YouTube only.
TestDomains ==
  { <<"y","o","u","t","u","b","e",".","c","o","m">>,
    <<"y","o","u","t","u",".","b","e">> }

\* any(domain in text.lower() for domain in [...])
HasDomain(text, domains) == \E d \in domains : Contains(Lower(text), d)

\* The text with the letters at odd positions turned into capitals.
Capitalised(text) ==
  [i \in 1..Len(text) |->
     IF i % 2 = 1 /\ \E k \in 1..Len(Letters) : Letters[k] = text[i]
       THEN Capitals[CHOOSE k \in 1..Len(Letters) : Letters[k] = text[i]]
       ELSE text[i]]

\* Plain-text messages users send: a domain, as written or with capitals, a
\* domain with one character missing or with the dot replaced, each alone or
\* inside a longer text.
Texts ==
  LET near == { SubSeq(d, 1, Len(d) - 1) : d \in SupportedDomains }
                \cup { SubSeq(d, 2, Len(d)) : d \in SupportedDomains }
                \cup { [i \in 1..Len(d) |-> IF d[i] = "." THEN "/" ELSE d[i]] :
                         d \in SupportedDomains }
      cores == SupportedDomains \cup { Capitalised(d) : d \in SupportedDomains }
                 \cup near \cup {<<>>}
  IN { p \o c \o s : p \in {<<>>, <<"a", " ">>}, c \in cores,
                      s \in {<<>>, <<"/", "a", "?", "b">>} }

\* First arguments of the URL commands: a URL without parameters, a watch
\* URL with its v parameter, a URL with two question marks, a bare parameter.
ArgUrls ==
  { <<"y","o","u","t","u",".","b","e","/","a">>,
    <<"y","o","u","t","u","b","e",".","c","o","m","/","w","a","t","c","h","?","v","=","a">>,
    <<"y","o","u","t","u",".","b","e","/","a","?","b","?","c">>,
    <<"?","a">> }

\* Variant: the text is cut before its last question mark.
CleanUrl_BeforeLast(url) ==
  IF Contains(url, <<"?">>)
    THEN SubSeq(url, 1, (CHOOSE i \in 1..Len(url) :
                           url[i] = "?" /\ \A j \in (i + 1)..Len(url) : url[j] # "?") - 1)
    ELSE url

\* clean_url = url.split('?')[0] if '?' in url else url
CleanUrl(url) ==
  IF Contains(url, <<"?">>)
    THEN SubSeq(url, 1, (CHOOSE i \in 1..Len(url) :
                           url[i] = "?" /\ \A j \in 1..(i - 1) : url[j] # "?") - 1)
    ELSE url

\* Variant: the argument list is never found empty.
NoArgs_Never(n) == FALSE

\* if not context.args
NoArgs(n) == n = 0

\* Updates the dispatcher hands to the handlers of a bot: the URL commands
\* with 0..MaxArgs arguments (the first of them spelled out), the commands
\* that read no argument, and the plain-text messages.
Updates(urlCommands, otherCommands) ==
  { [cmd |-> c, args |-> 0, text |-> <<>>] : c \in urlCommands \cup otherCommands }
    \cup { [cmd |-> c, args |-> n, text |-> a] :
              c \in urlCommands, n \in 1..MaxArgs, a \in ArgUrls }
    \cup { [cmd |-> "handle_url", args |-> 0, text |-> t] : t \in Texts }

\* The dispatcher enters the handler registered for the update.
Deliver(bot, u, upd) ==
  [ReqIdle EXCEPT !.bot = bot, !.pc = "entry", !.user = u, !.cmd = upd.cmd,
                  !.args = upd.args, !.text = upd.text]

\* await update.message.reply_text(text); return      (no try around it)
ReplyOnly(r, text, ok) ==
  [r EXCEPT !.pc = "done", !.raised = ~ok,
            !.reply = IF ok THEN text ELSE @,
            !.replies = IF ok THEN @ + 1 ELSE @]

\* await self._process_video_url(update, url, download): control moves into
\* _process_video_url; of the locals of the handler only the text passed as
\* url is kept (an argument of a command is not spelled out).
EnterProcess(r, startpc, download) ==
  [r EXCEPT !.pc = startpc, !.download = download,
            !.cmd = "_process_video_url", !.args = 0]

\* ------------------------------------------- RenderVideoBot.get_video_info

\* len(attempts): the presets are tried as 1, 2, 3.
NumPresets == 3

\* Variant: the geo keywords are tested before the unavailable ones.
ClassifyError_GeoFirst(msg) ==
  IF "rate" \in msg THEN "rate_limited"
  ELSE IF "age" \in msg THEN "age_restricted"
  ELSE IF "live" \in msg THEN "live_content"
  ELSE IF "geo" \in msg THEN "geo_blocked"
  ELSE IF "unavailable" \in msg THEN "unavailable"
  ELSE "unclassified"

\* Keyword classes a lower-cased error message can match; a message is
\* modelled by the set of classes it matches.
KeywordClasses == {"rate", "age", "live", "unavailable", "geo"}

\* The if / elif chain over the error message, in its order.
ClassifyError(msg) ==
  IF "rate" \in msg THEN "rate_limited"
  ELSE IF "age" \in msg THEN "age_restricted"
  ELSE IF "live" \in msg THEN "live_content"
  ELSE IF "unavailable" \in msg THEN "unavailable"
  ELSE IF "geo" \in msg THEN "geo_blocked"
  ELSE "unclassified"

ErrorInfo(t) == [kind |-> "error", error_type |-> t, file_size |-> 0]
VideoInfo(size) == [kind |-> "info", error_type |-> "", file_size |-> size]

\* Variant: a rate-limit error is returned at once, on whatever preset.
AfterFailedAttempt_NoRetry(i, msg) ==
  LET c == ClassifyError(msg) IN
    IF c = "unclassified"
      THEN IF i < NumPresets
             THEN [continue |-> TRUE, info |-> NoInfo]
             ELSE [continue |-> FALSE, info |-> NoInfo]
    ELSE [continue |-> FALSE, info |-> ErrorInfo(c)]

\* What attempt i does when extract_info raised a message of class set msg:
\* "continue" with the next preset, or return a value.
AfterFailedAttempt(i, msg) ==
  LET c == ClassifyError(msg) IN
    IF c = "rate_limited"
      THEN IF i < NumPresets
             THEN [continue |-> TRUE, info |-> NoInfo]
             ELSE [continue |-> FALSE, info |-> ErrorInfo("rate_limited")]
    ELSE IF c = "unclassified"
      THEN IF i < NumPresets
             THEN [continue |-> TRUE, info |-> NoInfo]
             ELSE [continue |-> FALSE, info |-> NoInfo]
    ELSE [continue |-> FALSE, info |-> ErrorInfo(c)]

\* The preset the next iteration of `for i, opts in enumerate(attempts, 1)` uses.
NextPreset(tried) == Len(tried) + 1

\* -------------------------------------- RenderVideoBot._process_video_url

\* An update for /download, /check, /status or a plain-text message arrives.
RenderDispatch ==
  /\ program = "render_bot"
  /\ mainpc = "serving"
  /\ req.pc = "idle"
  /\ \E upd \in Updates({"download_command", "check_command"}, {"status_command"}) :
       req' = Deliver("render", 0, upd)
  /\ OnlyReq

\* download_command: the usage reply without an argument, else
\* _process_video_url(update, context.args[0]).
RenderDownloadCommand ==
  /\ req.pc = "entry" /\ req.bot = "render" /\ req.cmd = "download_command"
  /\ \E ok \in BOOLEAN :
       req' = IF NoArgs(req.args) THEN ReplyOnly(req, "usage_download", ok)
              ELSE EnterProcess(req, "r_start", TRUE)
  /\ OnlyReq

\* handle_url: _process_video_url(update, text) when the text holds a
\* supported domain, else the "no supported link" reply.
RenderHandleUrl ==
  /\ req.pc = "entry" /\ req.bot = "render" /\ req.cmd = "handle_url"
  /\ \E ok \in BOOLEAN :
       req' = IF HasDomain(req.text, SupportedDomains)
                THEN EnterProcess(req, "r_start", TRUE)
                ELSE ReplyOnly(req, "no_link", ok)
  /\ OnlyReq

\* status_message = await update.message.reply_text("Обрабатываю...")
\* (before the try block: a failure leaves the handler), then
\* clean_url = url.split('?')[0] ..., the argument of get_video_info.
RenderStart ==
  /\ req.pc = "r_start"
  /\ \E ok \in BOOLEAN :
       req' = IF ok
                THEN [req EXCEPT !.statusText = "processing", !.replies = @ + 1,
                                 !.text = CleanUrl(@), !.pc = "r_getinfo"]
                ELSE [req EXCEPT !.raised = TRUE, !.text = <<>>, !.pc = "done"]
  /\ OnlyReq

\* Where get_video_info returns to: check_command, status_command or
\* _process_video_url.
GotInfoPc(cmd) ==
  IF cmd = "check_command" THEN "c_got_info"
  ELSE IF cmd = "status_command" THEN "st_got_info"
  ELSE "r_got_info"

\* What extract_info may report of a video besides its sizes: age_limit of
\* 18, is_live, was_live.  The dict get_video_info builds has the keys title,
\* uploader, duration, file_size, view_count, upload_date, attempt: none of
\* the three is copied into it.
VideoFlags == {{}, {"age"}, {"live"}, {"was_live"}}

\* One iteration of the loop of get_video_info: extract_info with preset i
\* returns metadata (file_size, flags) or raises.  The flags are kept for the
\* handler whose verdict is about them (check_command).
RenderGetInfoSuccess ==
  /\ req.pc = "r_getinfo"
  /\ LET i == NextPreset(req.attempts) IN
       /\ i <= NumPresets
       /\ \E size \in ReportedSizes, ml \in MetaLens, fl \in VideoFlags :
            /\ req.cmd # "check_command" => fl = {}
            /\ req' = [req EXCEPT !.attempts = Append(@, i),
                               !.flags = fl,
                               !.video_info = VideoInfo(size),
                               !.info1 = VideoInfo(size),
                               !.failMsg = {},
                               !.text = <<>>,
                               !.attempt = i,
                               !.meta_len = ml,
                               !.pc = GotInfoPc(req.cmd)]
  /\ OnlyReq

RenderGetInfoFailure ==
  /\ req.pc = "r_getinfo"
  /\ LET i == NextPreset(req.attempts) IN
       /\ i <= NumPresets
       /\ \E msg \in SUBSET KeywordClasses :
            LET a == AfterFailedAttempt(i, msg) IN
              req' = [req EXCEPT !.attempts = Append(@, i),
                                 !.video_info = a.info,
                                 !.info1 = a.info,
                                 !.failMsg = msg,
                                 !.text = <<>>,
                                 !.pc = IF a.continue THEN "r_getinfo"
                                        ELSE GotInfoPc(req.cmd)]
  /\ OnlyReq

\* Variant: every result that is not metadata triggers the alternative.
NeedsAlternative_AnyFailure(info) == info.kind # "info"

\* `if not video_info:` is taken for None only; an error dict is truthy.
NeedsAlternative(info) == info.kind = "none"

\* await status_message.edit_text("Пробую альтернативный метод...")
RenderAltStatus ==
  /\ req.pc = "r_got_info"
  /\ NeedsAlternative(req.video_info)
  /\ \E o \in CallOutcomes :
       req' = TryEdit(req, "alt_method", o, "r_alt", "r_except")
  /\ OnlyReq

\* _try_alternative_extraction: metadata with file_size 0, or None.
RenderAlt ==
  /\ req.pc = "r_alt"
  /\ \E ok \in BOOLEAN, ml \in MetaLens :
       req' = [req EXCEPT !.altCalls = @ + 1,
                          !.video_info = IF ok THEN VideoInfo(0) ELSE NoInfo,
                          !.meta_len = IF ok THEN ml ELSE 0,
                          !.pc = IF ok THEN "r_show" ELSE "r_no_info"]
  /\ OnlyReq

\* The alternative extraction failed too: the "could not get information" text.
RenderNoInfo ==
  /\ req.pc = "r_no_info"
  /\ \E o \in CallOutcomes :
       req' = TryEdit(req, "no_info", o, "done", "r_except")
  /\ OnlyReq

\* Variant: the geo_blocked branch shows the text of the unavailable branch.
RenderErrorText_Merged(error_type) ==
  CASE error_type = "rate_limited" -> "err_rate_limited"
    [] error_type = "age_restricted" -> "err_age_restricted"
    [] error_type = "live_content" -> "err_live_content"
    [] error_type = "geo_blocked" -> "err_unavailable"
    [] error_type = "unavailable" -> "err_unavailable"

\* The text shown for each error_type (lines 345-387).
RenderErrorText(error_type) ==
  CASE error_type = "rate_limited" -> "err_rate_limited"
    [] error_type = "age_restricted" -> "err_age_restricted"
    [] error_type = "live_content" -> "err_live_content"
    [] error_type = "geo_blocked" -> "err_geo_blocked"
    [] error_type = "unavailable" -> "err_unavailable"

\* if isinstance(video_info, dict) and 'error_type' in video_info: ... return
RenderClassifiedError ==
  /\ req.pc = "r_got_info"
  /\ req.video_info.kind = "error"
  /\ \E o \in CallOutcomes :
       req' = TryEdit(req, RenderErrorText(req.video_info.error_type), o,
                      "done", "r_except")
  /\ OnlyReq

\* Metadata is there: show title / channel / duration.
RenderShowInfo ==
  /\ req.pc \in {"r_got_info", "r_show"}
  /\ req.video_info.kind = "info"
  /\ \E o \in CallOutcomes :
       req' = TryEdit(req, "info", o, "r_size", "r_except")
  /\ OnlyReq

\* if file_size > self.max_file_size
RenderTooBig(file_size) == file_size > max_file_size

\* The size check on the reported size: refuse, or announce the download
\* (the last text that reads title and uploader).
RenderSizeCheck ==
  /\ req.pc = "r_size"
  /\ \E o \in CallOutcomes :
       req' = IF RenderTooBig(req.video_info.file_size)
                THEN TryEdit(req, "too_big", o, "done", "r_except")
                ELSE [TryEdit(req, "downloading", o, "r_download", "r_except")
                        EXCEPT !.meta_len = 0]
  /\ OnlyReq

\* Results of _download_video: None when anything raised, else the files
\* found in temp_dir under the title (the video and the thumbnail may each
\* be missing).
DownloadResults ==
  {NoResult} \cup {[ok |-> TRUE, files |-> f] : f \in SUBSET {VideoFile, ThumbFile}}

\* result = await self._download_video(clean_url)
RenderDownloadVideo ==
  /\ req.pc = "r_download"
  /\ \E res \in DownloadResults, size \in DiskSizes :
       req' = [req EXCEPT !.downloadCalls = @ + 1,
                          !.result = res,
                          !.temp_dir = res.files,
                          !.diskSize = IF VideoFile \in res.files THEN size ELSE 0,
                          !.pc = "r_downloaded"]
  /\ OnlyReq

\* if result and 'video' in result['files']
HasVideo(res) == res.ok /\ VideoFile \in res.files

\* _send_video: await status_message.edit_text("Отправляю...")
RenderSendStatus ==
  /\ req.pc = "r_downloaded"
  /\ HasVideo(req.result)
  /\ \E o \in CallOutcomes :
       req' = TryEdit(req, "sending", o, "r_send_video", "r_send_except")
  /\ OnlyReq

\* _send_video: open the files and await update.message.reply_video(...)
RenderReplyVideo ==
  /\ req.pc = "r_send_video"
  /\ \E o \in CallOutcomes :
       req' = IF o.ok
                THEN [req EXCEPT !.sent = @ \cup {VideoFile},
                                 !.sentSize = req.diskSize,
                                 !.pc = "r_send_delete"]
                ELSE Raise(req, o, "r_send_except")
  /\ OnlyReq

\* for file_path in result['files'].values(): Path(file_path).unlink()
UnlinkFiles(dir, files) == dir \ files

\* _send_video: await status_message.delete(), then the files are unlinked.
RenderSendDelete ==
  /\ req.pc = "r_send_delete"
  /\ \E o \in CallOutcomes :
       req' = IF o.ok
                THEN [req EXCEPT !.statusText = "deleted",
                                 !.temp_dir = UnlinkFiles(@, req.result.files),
                                 !.pc = "done"]
                ELSE Raise([req EXCEPT !.statusFailed = TRUE], o, "r_send_except")
  /\ OnlyReq

\* _send_video: except Exception: edit_text("Ошибка отправки: ...").  A
\* failure of this edit_text leaves _send_video and is caught by the except
\* clause of _process_video_url.
RenderSendExcept ==
  /\ req.pc = "r_send_except"
  /\ \E o \in CallOutcomes :
       req' = TryEdit(req, "send_error", o, "done", "r_except")
  /\ OnlyReq

\* The else branch (no video file): the f-string of the "audio only" status
\* text evaluates {ti:tle}; the name ti is not defined, so a NameError is
\* raised before edit_text and before _download_audio_only are reached.  Its
\* message contains none of the keywords.
RenderAudioStatus ==
  /\ req.pc = "r_downloaded"
  /\ ~HasVideo(req.result)
  /\ req' = [req EXCEPT !.pc = "r_except", !.excMsg = ExceptBranch("render", {}),
                         !.excLen = 24]
  /\ OnlyReq

\* except Exception as e: one edit_text; if it raises, the exception leaves
\* the handler.  e is unbound at the end of the clause.
RenderExcept ==
  /\ req.pc = "r_except"
  /\ \E o \in CallOutcomes :
       req' = [EditStatus(req, req.excMsg, o.ok)
                 EXCEPT !.pc = "done", !.raised = ~o.ok,
                        !.excMsg = "", !.excLen = 0]
  /\ OnlyReq

\* ------------------------------------------- RenderVideoBot.check_command

\* check_command: the usage reply without an argument; else url =
\* context.args[0] (no other argument is read) and the status message
\* "Проверяю видео..." (before the try block), then get_video_info.
RenderCheckCommand ==
  /\ req.pc = "entry" /\ req.bot = "render" /\ req.cmd = "check_command"
  /\ \E ok \in BOOLEAN :
       req' = IF NoArgs(req.args) THEN ReplyOnly(req, "usage_check", ok)
              ELSE IF ok
                THEN [req EXCEPT !.args = 1, !.statusText = "checking",
                                 !.replies = @ + 1, !.text = CleanUrl(@),
                                 !.pc = "r_getinfo"]
                ELSE [req EXCEPT !.args = 1, !.raised = TRUE, !.text = <<>>,
                                 !.pc = "done"]
  /\ OnlyReq

\* can_download of check_command, from the reported size and the two flags.
CanDownload(file_size, age_restricted, is_live) ==
  ~age_restricted /\ ~is_live /\ ~(file_size > max_file_size)

\* The text check_command shows for the value get_video_info returned.  The
\* dict of get_video_info has no 'age_restricted' and no 'is_live' key, so
\* video_info.get(..., False) gives False for both.
CheckText(info) ==
  CASE info.kind = "none" -> "chk_no_info"
    [] info.kind = "error" ->
         IF info.error_type = "age_restricted" THEN "chk_age"
         ELSE IF info.error_type = "live_content" THEN "chk_live"
         ELSE "chk_problem"
    [] info.kind = "info" ->
         IF CanDownload(info.file_size, FALSE, FALSE) THEN "chk_can"
         ELSE "chk_cannot"

\* The one edit_text of check_command after get_video_info; then return.
RenderCheckReport ==
  /\ req.pc = "c_got_info"
  /\ \E o \in CallOutcomes :
       req' = [TryEdit(req, CheckText(req.video_info), o, "done", "c_except")
                 EXCEPT !.meta_len = 0]
  /\ OnlyReq

\* except Exception as e: edit_text("Ошибка проверки: " + str(e)[:100])
RenderCheckExcept ==
  /\ req.pc = "c_except"
  /\ \E o \in CallOutcomes :
       req' = [EditStatus(req, "chk_error", o.ok)
                 EXCEPT !.pc = "done", !.raised = ~o.ok,
                        !.excMsg = "", !.excLen = 0]
  /\ OnlyReq

\* ------------------------------------------ RenderVideoBot.status_command

\* status_command: the status message "Проверяю доступность YouTube..."
\* (before the try block; context.args is not read), then get_video_info of
\* the fixed test URL.
RenderStatusCommand ==
  /\ req.pc = "entry" /\ req.bot = "render" /\ req.cmd = "status_command"
  /\ \E ok \in BOOLEAN :
       req' = IF ok
                THEN [req EXCEPT !.args = 0, !.statusText = "status_checking",
                                 !.replies = @ + 1, !.pc = "r_getinfo"]
                ELSE [req EXCEPT !.args = 0, !.raised = TRUE, !.pc = "done"]
  /\ OnlyReq

\* The text status_command shows for the value get_video_info returned.
StatusText(info) ==
  IF info.kind = "info" THEN "status_ok"
  ELSE IF info.kind = "error" /\ info.error_type = "rate_limited"
    THEN "status_rate_limited"
  ELSE "status_problem"

\* The one edit_text of status_command after get_video_info; the first text
\* names test_info.get('attempt', 1).
RenderStatusReport ==
  /\ req.pc = "st_got_info"
  /\ \E o \in ServerOutcomes :
       req' = [TryEdit(req, StatusText(req.video_info), o, "done", "st_except")
                 EXCEPT !.meta_len = 0]
  /\ OnlyReq

\* except Exception as e: edit_text("Ошибка проверки ... " + str(e)[:100])
RenderStatusExcept ==
  /\ req.pc = "st_except"
  /\ \E o \in ServerOutcomes :
       req' = [EditStatus(req, "status_error", o.ok)
                 EXCEPT !.pc = "done", !.raised = ~o.ok,
                        !.excMsg = "", !.excLen = 0]
  /\ OnlyReq

RenderNext ==
  \/ RenderDispatch \/ RenderDownloadCommand \/ RenderHandleUrl \/ RenderStart
  \/ RenderGetInfoSuccess \/ RenderGetInfoFailure
  \/ RenderAltStatus \/ RenderAlt \/ RenderNoInfo
  \/ RenderClassifiedError \/ RenderShowInfo \/ RenderSizeCheck
  \/ RenderDownloadVideo \/ RenderSendStatus \/ RenderReplyVideo
  \/ RenderSendDelete \/ RenderSendExcept \/ RenderAudioStatus
  \/ RenderExcept
  \/ RenderCheckCommand \/ RenderCheckReport \/ RenderCheckExcept
  \/ RenderStatusCommand \/ RenderStatusReport \/ RenderStatusExcept

\* ------------------------------------------------ ServerVideoBot handlers

\* Commands answered with one fixed text: /start, /help, /ping.
SimpleCommands == {"start_command", "help_command", "ping_command"}

\* An update for /download, /info, /start, /help, /ping or a plain-text
\* message arrives.
ServerDispatch ==
  /\ program = "server_bot"
  /\ mainpc = "polling"
  /\ req.pc = "idle"
  /\ \E u \in Users,
        upd \in Updates({"download_command", "info_command"}, SimpleCommands) :
       req' = Deliver("server", u, upd)
  /\ OnlyReq

\* start_command / help_command / ping_command: one reply_text, no state of
\* the bot is read or written (context.args is not read).
ServerSimpleCommand ==
  /\ req.pc = "entry" /\ req.bot = "server" /\ req.cmd \in SimpleCommands
  /\ \E ok \in BOOLEAN :
       req' = ReplyOnly(req,
                        CASE req.cmd = "start_command" -> "welcome"
                          [] req.cmd = "help_command" -> "help"
                          [] req.cmd = "ping_command" -> "pong",
                        ok)
  /\ OnlyReq

\* download_command / info_command: the usage reply without an argument,
\* else _process_video_url(update, context.args[0], download=True / False).
ServerUrlCommand ==
  /\ req.pc = "entry" /\ req.bot = "server"
  /\ req.cmd \in {"download_command", "info_command"}
  /\ \E ok \in BOOLEAN :
       LET dl == req.cmd = "download_command" IN
       req' = IF NoArgs(req.args)
                THEN ReplyOnly(req, IF dl THEN "usage_download" ELSE "usage_info", ok)
                ELSE EnterProcess(req, "s_start", dl)
  /\ OnlyReq

\* handle_url: as in RenderVideoBot, with download=True.
ServerHandleUrl ==
  /\ req.pc = "entry" /\ req.bot = "server" /\ req.cmd = "handle_url"
  /\ \E ok \in BOOLEAN :
       req' = IF HasDomain(req.text, SupportedDomains)
                THEN EnterProcess(req, "s_start", TRUE)
                ELSE ReplyOnly(req, "no_link", ok)
  /\ OnlyReq

\* status_message = await update.message.reply_text("Обрабатываю...")
ServerStart ==
  /\ req.pc = "s_start"
  /\ \E ok \in BOOLEAN :
       req' = IF ok
                THEN [req EXCEPT !.statusText = "processing", !.replies = @ + 1,
                                 !.text = <<>>, !.pc = "s_getinfo"]
                ELSE [req EXCEPT !.raised = TRUE, !.text = <<>>, !.pc = "done"]
  /\ OnlyReq

\* ServerVideoBot.get_video_info: one extract_info; None on any exception.
ServerGetInfo ==
  /\ req.pc = "s_getinfo"
  /\ \E info \in {NoInfo} \cup {VideoInfo(size) : size \in ReportedSizes},
        ml \in MetaLens :
       req' = [req EXCEPT !.video_info = info, !.info1 = info,
                          !.meta_len = IF info.kind = "info" THEN ml ELSE 0,
                          !.pc = "s_got_info"]
  /\ OnlyReq

\* if not video_info: edit_text("Не удалось получить информацию"); return
ServerNoInfo ==
  /\ req.pc = "s_got_info"
  /\ req.video_info.kind = "none"
  /\ \E o \in ServerOutcomes :
       req' = TryEdit(req, "no_info", o, "done", "s_except")
  /\ OnlyReq

\* Variant: the information-only return is never taken.
ReturnsAfterInfo_Never(download) == FALSE

\* if not download: ... return
ReturnsAfterInfo(download) == ~download

\* if not download: edit_text(info_text); return
ServerInfoOnly ==
  /\ req.pc = "s_got_info"
  /\ req.video_info.kind = "info"
  /\ ReturnsAfterInfo(req.download)
  /\ \E o \in ServerOutcomes :
       req' = [TryEdit(req, "info", o, "done", "s_except") EXCEPT !.meta_len = 0]
  /\ OnlyReq

\* max_size = self.max_file_size_premium if is_premium else self.max_file_size_regular
ServerMaxSize(premium) ==
  IF premium THEN max_file_size_premium ELSE max_file_size_regular

\* Variant: the premium ceiling is compared for every user.
ServerTooBig_WrongLimit(file_size, premium) ==
  file_size > max_file_size_premium /\ ~premium

\* if file_size > max_size and not is_premium
ServerTooBig(file_size, premium) ==
  file_size > ServerMaxSize(premium) /\ ~premium

\* is_premium = user_id in self.premium_users
IsPremium(u, S) == u \in S

\* The size / rights check: refuse with the "use /premium" text, or announce
\* the download.
ServerSizeCheck ==
  /\ req.pc = "s_got_info"
  /\ req.video_info.kind = "info"
  /\ ~ReturnsAfterInfo(req.download)
  /\ \E o \in ServerOutcomes :
       LET prem == IsPremium(req.user, premium_users)
           r == [req EXCEPT !.is_premium = prem]
       IN req' = IF ServerTooBig(req.video_info.file_size, prem)
                   THEN TryEdit(r, "too_big_use_premium", o, "done", "s_except")
                   ELSE [TryEdit(r, "downloading", o, "s_download", "s_except")
                           EXCEPT !.meta_len = 0]
  /\ OnlyReq

\* result = await self._download_video(url)
ServerDownloadVideo ==
  /\ req.pc = "s_download"
  /\ \E res \in DownloadResults, size \in DiskSizes :
       req' = [req EXCEPT !.downloadCalls = @ + 1,
                          !.result = res,
                          !.temp_dir = res.files,
                          !.diskSize = IF VideoFile \in res.files THEN size ELSE 0,
                          !.pc = "s_downloaded"]
  /\ OnlyReq

\* else: edit_text("Ошибка скачивания")      (result is None)
ServerDownloadError ==
  /\ req.pc = "s_downloaded"
  /\ ~req.result.ok
  /\ \E o \in ServerOutcomes :
       req' = TryEdit(req, "download_error", o, "done", "s_except")
  /\ OnlyReq

\* _send_video_to_chat: if 'video' not in files: edit_text(...); return
ServerVideoMissing ==
  /\ req.pc = "s_downloaded"
  /\ req.result.ok
  /\ VideoFile \notin req.result.files
  /\ \E o \in ServerOutcomes :
       req' = TryEdit(req, "video_not_found", o, "done", "s_send_except")
  /\ OnlyReq

\* Variant: a file of exactly chunk_size is split too.
ShouldSplit_AtLeast(premium, file_size) == premium /\ file_size >= chunk_size

\* if is_premium and file_size > self.chunk_size
ShouldSplit(premium, file_size) == premium /\ file_size > chunk_size

\* Variant: the quotient is rounded down.
PartsCount_Floor(file_size) == file_size \div chunk_size

\* parts_count = math.ceil(file_size / self.chunk_size)
PartsCount(file_size) == (file_size + chunk_size - 1) \div chunk_size

\* _send_video_to_chat chooses the way to send; the first await of the chosen
\* way: edit_text("Разбиваю на N частей...") or edit_text("Отправляю...").
ServerChooseSend ==
  /\ req.pc = "s_downloaded"
  /\ req.result.ok
  /\ VideoFile \in req.result.files
  /\ \E o \in ServerOutcomes :
       req' = IF ShouldSplit(req.is_premium, req.diskSize)
                THEN TryEdit([req EXCEPT !.parts_count = PartsCount(req.diskSize)],
                             "splitting", o, "s_split", "s_send_except")
                ELSE TryEdit(req, "sending", o, "s_send_video", "s_send_except")
  /\ OnlyReq

\* self._cleanup_temp_files(files), the last statement of the try block of
\* _send_video_to_chat; the handler is done after it.
ServerCleanup(r) ==
  [r EXCEPT !.temp_dir = UnlinkFiles(@, r.result.files), !.pc = "done"]

\* _send_single_video: await update.message.reply_video(...)
ServerReplyVideo ==
  /\ req.pc = "s_send_video"
  /\ \E o \in ServerOutcomes :
       req' = IF o.ok
                THEN [req EXCEPT !.sent = @ \cup {VideoFile},
                                 !.sentSize = req.diskSize,
                                 !.pc = "s_single_delete"]
                ELSE Raise(req, o, "s_send_except")
  /\ OnlyReq

\* _send_single_video: await status_message.delete(); then the cleanup.
ServerSingleDelete ==
  /\ req.pc = "s_single_delete"
  /\ \E o \in ServerOutcomes :
       req' = IF o.ok
                THEN ServerCleanup([req EXCEPT !.statusText = "deleted"])
                ELSE Raise([req EXCEPT !.statusFailed = TRUE], o, "s_send_except")
  /\ OnlyReq

\* ------------------------------------------------ ServerVideoBot._split_file

\* Variant: each read is one unit short.
ReadChunk_Short(pos, size) == [lo |-> pos, hi |-> Min(pos + chunk_size - 1, size)]

\* chunk = input_file.read(self.chunk_size): the bytes [lo, hi) of the file.
ReadChunk(pos, size) == [lo |-> pos, hi |-> Min(pos + chunk_size, size)]

\* if not chunk: break
ChunkEmpty(c) == c.hi = c.lo

\* One iteration of the loop with a non-empty chunk: the part file is written
\* and appended; an I/O error takes the except branch, which returns [] and
\* leaves the parts written so far (and possibly the one being written).
ServerSplitWrite ==
  /\ req.pc = "s_split"
  /\ LET c == ReadChunk(req.splitPos, req.diskSize)
         part_num == Len(req.parts) + 1
     IN /\ ~ChunkEmpty(c)
        /\ \E ok \in BOOLEAN, created \in BOOLEAN :
             req' = IF ok
                      THEN [req EXCEPT
                              !.parts = Append(@, [num |-> part_num,
                                                   lo |-> c.lo, hi |-> c.hi]),
                              !.temp_dir = @ \cup {PartFile(part_num)},
                              !.splitPos = c.hi]
                      ELSE [req EXCEPT
                              !.parts = <<>>,
                              !.splitFailed = TRUE,
                              !.temp_dir = IF created THEN @ \cup {PartFile(part_num)}
                                           ELSE @,
                              !.pc = "s_split_ret"]
  /\ OnlyReq

\* The read at end of file gives an empty chunk: return parts.
ServerSplitReturn ==
  /\ req.pc = "s_split"
  /\ ChunkEmpty(ReadChunk(req.splitPos, req.diskSize))
  /\ req' = [req EXCEPT !.pc = "s_split_ret"]
  /\ OnlyReq

\* --------------------------------- ServerVideoBot._send_large_video_parts

\* if not parts: edit_text("Ошибка разбивки"); return   -- the caller then
\* runs its cleanup.
ServerSplitError ==
  /\ req.pc = "s_split_ret"
  /\ req.bot = "server"
  /\ req.parts = <<>>
  /\ \E o \in ServerOutcomes :
       req' = IF o.ok
                THEN ServerCleanup(EditStatus(req, "split_error", TRUE))
                ELSE TryEdit(req, "split_error", o, "done", "s_send_except")
  /\ OnlyReq

\* reply_text("Файл разбит на N частей ...")
ServerAnnounceParts ==
  /\ req.pc = "s_split_ret"
  /\ req.bot = "server"
  /\ req.parts # <<>>
  /\ \E o \in ServerOutcomes :
       req' = IF o.ok
                THEN [req EXCEPT !.reply = "split_announce", !.replies = @ + 1,
                                 !.part_i = 1, !.pc = "s_part"]
                ELSE Raise(req, o, "s_send_except")
  /\ OnlyReq

\* One iteration of `for i, part_path in enumerate(parts, 1)`: the progress
\* edit_text, the upload with reply_document and the unlink of the part; an
\* exception of any of them is logged and the loop goes on.
ServerSendPart ==
  /\ req.pc = "s_part"
  /\ LET i == req.part_i IN
       \E editOk \in BOOLEAN, uploadOk \in BOOLEAN :
         LET r == EditStatus(req, "part_progress", editOk)
             done == editOk /\ uploadOk
         IN req' = [r EXCEPT
                      !.sent = IF done THEN @ \cup {PartFile(i)} ELSE @,
                      !.temp_dir = IF done THEN @ \ {PartFile(i)} ELSE @,
                      !.partLog = Append(@, <<i, IF done THEN "ok" ELSE "failed">>),
                      !.part_i = i + 1,
                      !.pc = IF i = Len(req.parts) THEN "s_parts_delete"
                             ELSE "s_part"]
  /\ OnlyReq

\* await status_message.delete() after the loop; then the caller's cleanup.
ServerPartsDelete ==
  /\ req.pc = "s_parts_delete"
  /\ \E o \in ServerOutcomes :
       req' = IF o.ok
                THEN ServerCleanup([req EXCEPT !.statusText = "deleted"])
                ELSE Raise([req EXCEPT !.statusFailed = TRUE], o, "s_send_except")
  /\ OnlyReq

\* _send_video_to_chat: except Exception: edit_text("Ошибка отправки: ...")
\* (the cleanup is skipped).
ServerSendExcept ==
  /\ req.pc = "s_send_except"
  /\ \E o \in ServerOutcomes :
       req' = TryEdit(req, "send_error", o, "done", "s_except")
  /\ OnlyReq

\* _process_video_url: except Exception: edit_text("Ошибка: ...")
ServerExcept ==
  /\ req.pc = "s_except"
  /\ \E o \in ServerOutcomes :
       req' = [EditStatus(req, "exc_generic", o.ok)
                 EXCEPT !.pc = "done", !.raised = ~o.ok,
                        !.excMsg = "", !.excLen = 0]
  /\ OnlyReq

\* ------------------------------------------------------- TestVideoBot

\* An update for /test or a plain-text message arrives.
TestDispatch ==
  /\ program = "test_bot"
  /\ mainpc = "serving"
  /\ req.pc = "idle"
  /\ \E upd \in Updates({"test_command"}, {}) : req' = Deliver("test", 0, upd)
  /\ OnlyReq

\* test_command: the usage reply without an argument, else _test_video.
TestCommand ==
  /\ req.pc = "entry" /\ req.bot = "test" /\ req.cmd = "test_command"
  /\ \E ok \in BOOLEAN :
       req' = IF NoArgs(req.args) THEN ReplyOnly(req, "usage_test", ok)
              ELSE EnterProcess(req, "t_start", FALSE)
  /\ OnlyReq

\* handle_url: _test_video for a text with a YouTube domain, else one reply.
TestHandleUrl ==
  /\ req.pc = "entry" /\ req.bot = "test" /\ req.cmd = "handle_url"
  /\ \E ok \in BOOLEAN :
       req' = IF HasDomain(req.text, TestDomains)
                THEN EnterProcess(req, "t_start", FALSE)
                ELSE ReplyOnly(req, "no_youtube_link", ok)
  /\ OnlyReq

\* _test_video: status_message = await reply_text("Тестирую...")
TestStart ==
  /\ req.pc = "t_start"
  /\ \E ok \in BOOLEAN :
       req' = IF ok
                THEN [req EXCEPT !.statusText = "testing", !.replies = @ + 1,
                                 !.text = CleanUrl(@), !.pc = "t_test1"]
                ELSE [req EXCEPT !.raised = TRUE, !.text = <<>>, !.pc = "done"]
  /\ OnlyReq

\* edit_text("Тестирую: <url>"), edit_text("Тест 1 ..."), _get_basic_info
\* (which returns None instead of raising).
TestBasicInfo ==
  /\ req.pc = "t_test1"
  /\ \E o1 \in ServerOutcomes, o2 \in ServerOutcomes, found \in BOOLEAN :
       req' = IF ~o1.ok
                THEN [TryEdit(req, "testing_url", o1, "t_basic", "t_except")
                        EXCEPT !.text = <<>>]
                ELSE [TryEdit(EditStatus(req, "testing_url", TRUE), "test1", o2,
                              "t_basic", "t_except")
                        EXCEPT !.attempts = IF o2.ok THEN <<1>> ELSE @,
                               !.text = <<>>,
                               !.video_info = IF o2.ok /\ found THEN VideoInfo(0)
                                              ELSE NoInfo]
  /\ OnlyReq

\* if not basic_info: edit_text("Тест 1 ПРОВАЛЕН ..."); return
TestFailed ==
  /\ req.pc = "t_basic"
  /\ req.video_info.kind = "none"
  /\ \E o \in ServerOutcomes :
       req' = TryEdit(req, "test1_failed", o, "done", "t_except")
  /\ OnlyReq

\* edit_text("Тест 2 ..."), _get_detailed_info (metadata or a dict with
\* error_details, never an exception), then the result text.
TestDetailed ==
  /\ req.pc = "t_basic"
  /\ req.video_info.kind = "info"
  /\ \E o1 \in ServerOutcomes, o2 \in ServerOutcomes :
       req' = IF ~o1.ok THEN TryEdit(req, "test2", o1, "done", "t_except")
              ELSE TryEdit([EditStatus(req, "test2", TRUE)
                              EXCEPT !.attempts = Append(@, 2)],
                           "test_result", o2, "done", "t_except")
  /\ OnlyReq

\* except Exception as e: edit_text("ОШИБКА ТЕСТА ... " + str(e)[:200])
TestExcept ==
  /\ req.pc = "t_except"
  /\ \E o \in ServerOutcomes :
       req' = [EditStatus(req, "test_error", o.ok)
                 EXCEPT !.pc = "done", !.raised = ~o.ok,
                        !.excMsg = "", !.excLen = 0]
  /\ OnlyReq

TestNext ==
  \/ TestDispatch \/ TestCommand \/ TestHandleUrl \/ TestStart
  \/ TestBasicInfo \/ TestFailed \/ TestDetailed \/ TestExcept

MainNext ==
  \/ MainStart \/ MainInitialize \/ MainSetupWebhook \/ MainStartFlask
  \/ MainStop \/ Webhook \/ Health \/ ServerMain \/ ServerStop

ServerNext ==
  \/ ServerSimpleCommand
  \/ ServerDispatch \/ ServerUrlCommand \/ ServerHandleUrl \/ ServerStart \/ ServerGetInfo \/ ServerNoInfo
  \/ ServerInfoOnly \/ ServerSizeCheck \/ ServerDownloadVideo
  \/ ServerDownloadError \/ ServerVideoMissing \/ ServerChooseSend
  \/ ServerReplyVideo \/ ServerSingleDelete
  \/ ServerSplitWrite \/ ServerSplitReturn \/ ServerSplitError
  \/ ServerAnnounceParts \/ ServerSendPart \/ ServerPartsDelete
  \/ ServerSendExcept \/ ServerExcept

Next ==
  MainNext \/ PremiumCommand \/ RenderNext \/ ServerNext \/ TestNext \/ HandlerReturn

Spec == Init /\ [][Next]_vars

\* _split_file exercised on its own, on files of every size of SplitSizes.
SplitInit ==
  /\ program = "server_bot"
  /\ mainpc = "polling" /\ bot_instance = FALSE
  /\ proc = [token |-> TRUE, webhook_url |-> FALSE, webhook_set |-> FALSE,
             temp_dir |-> TRUE]
  /\ httpResp = NoResponse /\ scheduled = 0
  /\ premium_users = {} /\ toggles = [u \in Users |-> 0] /\ ptasks = <<>>
  /\ \E size \in SplitSizes :
       req = [ReqIdle EXCEPT !.pc = "s_split", !.diskSize = size,
                             !.temp_dir = {VideoFile}]

SplitNext == ServerSplitWrite \/ ServerSplitReturn

SpecSplit == SplitInit /\ [][SplitNext]_vars

\* premium_command under concurrent update processing: every /premium update
\* is a coroutine of its own, and the event loop switches between coroutines
\* at their await expressions only.
PremiumInit ==
  /\ program = "server_bot"
  /\ mainpc = "polling" /\ bot_instance = FALSE
  /\ proc = [token |-> TRUE, webhook_url |-> FALSE, webhook_set |-> FALSE,
             temp_dir |-> TRUE]
  /\ httpResp = NoResponse /\ scheduled = 0
  /\ premium_users = {} /\ toggles = [u \in Users |-> 0] /\ ptasks = <<>>
  /\ req = ReqIdle

PremiumFrame ==
  UNCHANGED <<program, mainpc, bot_instance, proc, httpResp, scheduled, req>>

\* Variant: the coroutine is suspended between the membership test and the
\* add / remove.
RunToAwait_AfterTest(S, u) ==
  [users |-> S, pc |-> "tested", member |-> u \in S, mode |-> "none"]

\* premium_command from its first statement to its first await: the
\* membership test, the remove or add, the choice of the mode; it is
\* suspended in reply_text.
RunToAwait(S, u) ==
  [users |-> PremiumToggle(S, u), pc |-> "reply", member |-> u \in S,
   mode |-> PremiumMode(S, u)]

\* A /premium update of user u arrives: its coroutine is created.
PremiumArrive ==
  /\ Len(ptasks) < MaxTasks
  /\ \E u \in Users :
       ptasks' = Append(ptasks, [user |-> u, pc |-> "start", member |-> FALSE,
                                 mode |-> "none", keyError |-> FALSE])
  /\ UNCHANGED <<premium_users, toggles>>
  /\ PremiumFrame

\* The event loop runs coroutine k from its start to its first suspension.
PremiumRun ==
  /\ \E k \in 1..Len(ptasks) :
       /\ ptasks[k].pc = "start"
       /\ LET u == ptasks[k].user
              r == RunToAwait(premium_users, u)
          IN /\ premium_users' = r.users
             /\ toggles' = [toggles EXCEPT ![u] = IF r.pc = "reply" THEN @ + 1 ELSE @]
             /\ ptasks' = [ptasks EXCEPT ![k].pc = r.pc, ![k].member = r.member,
                                         ![k].mode = r.mode]
  /\ PremiumFrame

\* The event loop resumes coroutine k: after reply_text the handler returns;
\* a coroutine suspended after the membership test goes on with the remove
\* (KeyError when the user is not in the set) or the add.
PremiumResume ==
  /\ \E k \in 1..Len(ptasks) :
       LET t == ptasks[k]
           u == t.user
       IN \/ /\ t.pc = "reply"
             /\ ptasks' = [ptasks EXCEPT ![k].pc = "done"]
             /\ UNCHANGED <<premium_users, toggles>>
          \/ /\ t.pc = "tested"
             /\ IF t.member /\ u \notin premium_users
                  THEN /\ ptasks' = [ptasks EXCEPT ![k].pc = "done",
                                                   ![k].keyError = TRUE]
                       /\ UNCHANGED <<premium_users, toggles>>
                  ELSE /\ premium_users' = IF t.member THEN premium_users \ {u}
                                           ELSE premium_users \cup {u}
                       /\ toggles' = [toggles EXCEPT ![u] = @ + 1]
                       /\ ptasks' = [ptasks EXCEPT
                                       ![k].pc = "reply",
                                       ![k].mode = IF t.member THEN "mode_regular"
                                                   ELSE "mode_premium"]
  /\ PremiumFrame

PremiumNext == PremiumArrive \/ PremiumRun \/ PremiumResume

SpecPremium == PremiumInit /\ [][PremiumNext]_vars

\* ------------------------------ get_video_info: the file size it reports
\* d.get(key, default)
Get(value, default) == IF value = Absent THEN default ELSE value

\* Truth value of a looked-up value: None and 0 are false.
Truthy(value) == value.k = "int" /\ value.v # 0

\* a or b
Or(a, b) == IF Truthy(a) THEN a ELSE b

\* for fmt in formats: ... from entry i on, file_size being the value assigned
\* so far.  None <= 720 raises TypeError, which ends the attempt.
RECURSIVE FormatsLoop(_, _, _)
FormatsLoop(formats, i, file_size) ==
  IF i > Len(formats) THEN [raised |-> FALSE, file_size |-> file_size]
  ELSE LET fmt == formats[i]
           height == Get(fmt.height, Num(0))
           size == Or(Get(fmt.filesize, None), Get(fmt.filesize_approx, Num(0)))
       IN  IF height = None THEN [raised |-> TRUE, file_size |-> file_size]
           ELSE IF height.v <= MaxHeight
                THEN IF Truthy(size)
                     THEN [raised |-> FALSE, file_size |-> size]
                     ELSE FormatsLoop(formats, i + 1, size)
                ELSE FormatsLoop(formats, i + 1, file_size)

\* The value of file_size at the return statement, or the TypeError.
FileSize(info) ==
  LET loop == FormatsLoop(info.formats, 1, Num(0))
  IN  IF loop.raised \/ Truthy(loop.file_size) THEN loop
      ELSE [raised |-> FALSE,
            file_size |-> Or(Get(info.filesize, Num(0)),
                             Get(info.filesize_approx, Num(0)))]

\* Entries of info['formats'] and info dicts of the extraction library.
Heights == {Absent, None, Num(MaxHeight), Num(MaxHeight + 1)}
FormatSizes == {Absent, None, Num(0), Num(1)}
FormatApproxSizes == {Absent, None, Num(2)}
Formats ==
  [height : Heights, filesize : FormatSizes, filesize_approx : FormatApproxSizes]
InfoSizes == {Absent, None, Num(0), Num(3)}
InfoApproxSizes == {Absent, None, Num(4)}
FormatLists == UNION {[1..n -> Formats] : n \in 0..MaxFormats}
Infos ==
  [formats : FormatLists, filesize : InfoSizes, filesize_approx : InfoApproxSizes]

\* One attempt of get_video_info after extract_info returned info.
SizeInit ==
  /\ program = "render_bot"
  /\ mainpc = "serving" /\ bot_instance = TRUE
  /\ proc = [token |-> TRUE, webhook_url |-> TRUE, webhook_set |-> TRUE,
             temp_dir |-> TRUE]
  /\ httpResp = NoResponse /\ scheduled = 0
  /\ premium_users = {} /\ toggles = [u \in Users |-> 0] /\ ptasks = <<>>
  /\ \E info \in Infos :
       req = [ReqIdle EXCEPT !.bot = "render", !.pc = "gi_extracted",
                             !.info = info]

RenderFileSize ==
  /\ req.pc = "gi_extracted"
  /\ LET r == FileSize(req.info)
     IN  req' = [req EXCEPT !.file_size = r.file_size,
                            !.pc = IF r.raised THEN "gi_except" ELSE "gi_return"]
  /\ UNCHANGED <<program, mainpc, bot_instance, proc, httpResp, scheduled,
                 premium_users, toggles, ptasks>>

SizeNext == RenderFileSize

SpecSize == SizeInit /\ [][SizeNext]_vars

\* ------------------------------------------------------------- properties

ErrorTypes ==
  {"rate_limited", "age_restricted", "live_content", "geo_blocked", "unavailable"}

\* Texts of the except clause of RenderVideoBot._process_video_url.
RenderExceptTexts == {"exc_age_gated", "exc_private", "exc_region", "exc_generic"}

\* Final error texts of RenderVideoBot._process_video_url / _send_video.
RenderErrorTexts ==
  {"no_info", "too_big", "send_error"} \cup RenderExceptTexts
    \cup {RenderErrorText(t) : t \in ErrorTypes}

\* Final error texts of ServerVideoBot._process_video_url and what it calls.
ServerErrorTexts ==
  {"no_info", "too_big_use_premium", "download_error", "video_not_found",
   "split_error", "send_error", "exc_generic"}

\* The handler that has finished is a _process_video_url in download mode.
DownloadHandlerDone ==
  req.pc = "done" /\ req.download /\ req.bot \in {"render", "server"}

\* C1: when a download-mode _process_video_url has returned, the chat has
\* received a media attachment (video or file parts) or the status message
\* shows a final error text.  Runs in which the handler itself raises are left
\* out, so a violation is a handler that returns normally with neither.
C1_MediaOrErrorText ==
  (DownloadHandlerDone /\ ~req.raised) =>
     \/ req.sent # {}
     \/ req.statusText \in RenderErrorTexts \cup ServerErrorTexts

\* C2: a POST /webhook whose update decodes, handled while bot_instance is
\* set, is answered 'OK' and its update has been handed to process_update.
C2_WebhookDispatches ==
  (httpResp.path = "webhook" /\ bot_instance /\ httpResp.decoded) =>
     (httpResp.resp = "OK" /\ scheduled > 0)

\* C3: a video file RenderVideoBot has passed to reply_video is at most
\* max_file_size (50 MB) big.
C3_SentVideoWithinLimit ==
  (req.bot = "render" /\ VideoFile \in req.sent) => req.sentSize <= max_file_size

\* The size check of ServerVideoBot is about to run on a reported size above
\* the regular ceiling.
\* A step of the handler in execution, as opposed to a step of the process
\* around it (an HTTP request served, the process interrupted).
HandlerStep == req' # req /\ mainpc' = mainpc

C4_AtCheck ==
  /\ req.bot = "server" /\ req.pc = "s_got_info" /\ req.download
  /\ req.video_info.kind = "info"
  /\ req.video_info.file_size > max_file_size_regular

\* C4: in ServerVideoBot a download request with a reported size strictly
\* above 50 MB is, for a user outside premium_users, answered with the
\* 'use /premium' text and never reaches _download_video; for a user in
\* premium_users the same request goes on to the download.
C4_RegularLimit ==
  /\ [] ( (req.bot = "server" /\ (req.downloadCalls > 0 \/ req.pc = "s_download"))
            => (req.is_premium \/ req.video_info.file_size <= max_file_size_regular) )
  /\ [][ (C4_AtCheck /\ HandlerStep) =>
           IF req.user \notin premium_users
             THEN /\ req'.lastEdit = "too_big_use_premium"
                  /\ req'.pc \in {"done", "s_except"}
                  /\ req'.pc = "done" => req'.statusText = "too_big_use_premium"
                  /\ req'.downloadCalls = 0
             ELSE /\ req'.lastEdit = "downloading"
                  /\ req'.pc \in {"s_download", "s_except"}
                  /\ req'.pc = "s_download" => req'.is_premium ]_vars

C4_Witness ==
  /\ req.bot = "server" /\ req.pc = "done" /\ req.download
  /\ req.user \notin premium_users
  /\ req.video_info.file_size = max_file_size_regular + 1
  /\ req.statusText = "too_big_use_premium"
  /\ req.downloadCalls = 0

\* C5: in ServerVideoBot a request of a premium user whose reported size
\* exceeds max_file_size_premium (2 GB) is refused: it is never downloaded.
C5_PremiumLimit ==
  ( /\ req.bot = "server" /\ req.is_premium
    /\ req.video_info.kind = "info"
    /\ req.video_info.file_size > max_file_size_premium )
  => (req.downloadCalls = 0 /\ req.pc # "s_download")

\* C6: a user is in premium_users exactly when they have issued an odd number
\* of /premium commands (so the set is empty at start); toggling twice for a
\* user gives the set back; the reply names the mode the user is in after the
\* command.
C6_PremiumParity ==
  /\ \A u \in Users : (u \in premium_users) <=> (toggles[u] % 2 = 1)
  /\ \A u \in Users :
       PremiumToggle(PremiumToggle(premium_users, u), u) = premium_users
  /\ (req.reply \in {"mode_premium", "mode_regular"}) =>
        ((req.reply = "mode_premium") <=> (req.user \in premium_users))

C6_Witness ==
  \E u, v \in Users :
    /\ u # v
    /\ toggles[u] = 2 /\ u \notin premium_users
    /\ toggles[v] = 1 /\ v \in premium_users
    /\ req.reply = "mode_regular" /\ req.user = u

\* C7: in RenderVideoBot._process_video_url (a) a classified error of
\* get_video_info never leads to a download and, when the request is done, the
\* status message shows the text of that error type, the five texts being
\* pairwise different; (b) an exception propagates out of the handler only
\* when a call on the status message itself raised: exceptions of the
\* extraction, the download and the media upload end in an error text.
C7_ErrorsBecomeTexts ==
  (req.bot = "render" /\ req.cmd = "_process_video_url") =>
    /\ \A t1, t2 \in ErrorTypes :
         t1 # t2 => RenderErrorText(t1) # RenderErrorText(t2)
    /\ req.info1.kind = "error" =>
         /\ req.downloadCalls = 0 /\ req.sent = {}
         /\ (req.pc = "done" /\ ~req.statusFailed) =>
               req.statusText = RenderErrorText(req.info1.error_type)
    /\ req.raised => (req.statusFailed \/ req.statusText = "none")
    /\ (req.pc = "done" /\ ~req.statusFailed /\ req.statusText # "none") =>
         /\ ~req.raised
         /\ req.statusText \in RenderErrorTexts \cup {"deleted"}
         /\ req.statusText = "deleted" => VideoFile \in req.sent

\* Reached by a failed reply_video only: no call on the status message raised.
C7_Witness ==
  /\ req.bot = "render" /\ req.pc = "done" /\ ~req.statusFailed
  /\ req.statusText = "send_error" /\ req.sent = {} /\ ~req.raised

\* C8: get_video_info tries presets 1, 2, 3 in this order, each at most once;
\* _process_video_url calls _try_alternative_extraction at most once, only
\* after get_video_info returned None (all three presets tried), never after a
\* classified error.
C8_BoundedRetries ==
  req.bot = "render" =>
    /\ Len(req.attempts) <= NumPresets
    /\ \A k \in 1..Len(req.attempts) : req.attempts[k] = k
    /\ req.altCalls <= 1
    /\ (req.altCalls = 1 \/ req.pc = "r_alt") =>
          (req.info1.kind = "none" /\ Len(req.attempts) = NumPresets)
    /\ req.info1.kind = "error" => (req.altCalls = 0 /\ req.pc # "r_alt")

C8_Witness ==
  /\ req.bot = "render" /\ req.altCalls = 1
  /\ req.attempts = <<1, 2, 3>> /\ req.video_info.kind = "info"

\* C9: when a download handler is done, no file of the request is left in
\* temp_dir.
C9_NoFilesLeft == DownloadHandlerDone => req.temp_dir = {}

\* ceil(S / chunk_size), computed without PartsCount.
CeilDiv(a, b) == IF a % b = 0 THEN a \div b ELSE (a \div b) + 1

\* C10: when _split_file returns without an I/O error on a file of size S,
\* it returns ceil(S / chunk_size) parts numbered 1, 2, ... in order; the
\* parts are consecutive slices of the file that cover it from 0 to S (their
\* concatenation is the file); all but the last hold chunk_size, the last
\* between 1 and chunk_size; an empty file gives no parts.
C10_SplitExact ==
  (req.pc = "s_split_ret" /\ ~req.splitFailed) =>
    LET ps == req.parts
        n == Len(ps)
        S == req.diskSize
    IN /\ n = CeilDiv(S, chunk_size)
       /\ S = 0 => ps = <<>>
       /\ \A i \in 1..n :
            /\ ps[i].num = i
            /\ PartFile(i) \in req.temp_dir
            /\ ps[i].lo = (IF i = 1 THEN 0 ELSE ps[i - 1].hi)
            /\ i < n => ps[i].hi - ps[i].lo = chunk_size
            /\ i = n => /\ ps[i].hi = S
                        /\ ps[i].hi - ps[i].lo \in 1..chunk_size

C10_Witness ==
  /\ req.pc = "s_split_ret" /\ ~req.splitFailed
  /\ req.diskSize = 2 * chunk_size + 1
  /\ Len(req.parts) = 3

\* C11: every error text RenderVideoBot or ServerVideoBot passes to the chat
\* is shorter than 4096 characters, whatever the length of the exception
\* message, the title and the uploader.
C11_ErrorTextsShort ==
  req.bot \in {"render", "server"} => req.errLen < MaxMessageLen

\* The commands that take a URL.
UrlCommands ==
  {"download_command", "check_command", "info_command", "test_command"}

\* The usage text of each of them.
UsageOf(bot, cmd) ==
  CASE cmd = "download_command" -> "usage_download"
    [] cmd = "check_command" -> "usage_check"
    [] cmd = "info_command" -> "usage_info"
    [] cmd = "test_command" -> "usage_test"

\* A URL command without argument has been handed to its handler.
C12_NoArgEntry ==
  req.pc = "entry" /\ req.cmd \in UrlCommands /\ req.args = 0

\* C12: a URL command (/download, /check, /info, /test) without argument
\* makes one reply_text call with the usage text of the command and returns:
\* no status message, no extraction, no download, no media, no file, and
\* premium_users and the process state stay as they were.
C12_UsageOnly ==
  /\ [] ( (req.pc = "done" /\ req.cmd \in UrlCommands /\ req.args = 0) =>
            /\ req.statusText = "none" /\ req.lastEdit = "none"
            /\ req.attempts = <<>> /\ req.altCalls = 0 /\ req.downloadCalls = 0
            /\ req.sent = {} /\ req.temp_dir = {}
            /\ req.replies = (IF req.raised THEN 0 ELSE 1)
            /\ ~req.raised => req.reply = UsageOf(req.bot, req.cmd) )
  /\ [][ (C12_NoArgEntry /\ HandlerStep) =>
           /\ req'.pc = "done" /\ req'.cmd = req.cmd /\ req'.args = 0
           /\ UNCHANGED <<premium_users, toggles, bot_instance, mainpc>> ]_vars

C12_Witness ==
  /\ req.bot = "test" /\ req.pc = "done" /\ req.cmd = "test_command"
  /\ req.args = 0 /\ req.reply = "usage_test" /\ req.replies = 1

\* The handler being executed is /check of RenderVideoBot or /info of
\* ServerVideoBot (_process_video_url with download=False).
C13_InfoOnly ==
  \/ req.bot = "render" /\ req.cmd = "check_command"
  \/ req.bot = "server" /\ req.cmd = "info_command"
  \/ req.bot = "server" /\ req.cmd = "_process_video_url" /\ ~req.download

\* C13: /check and /info never download: whatever the arguments, the
\* metadata outcome and the premium state, their handling makes no download
\* call, sends no media, leaves no file in temp_dir and does not change
\* premium_users; /info enters _process_video_url with download=False.
C13_InfoNeverDownloads ==
  /\ [] ( C13_InfoOnly =>
            /\ req.downloadCalls = 0 /\ req.sent = {} /\ req.temp_dir = {}
            /\ req.result = NoResult
            /\ req.pc \notin {"r_download", "s_download"} )
  /\ [][ (C13_InfoOnly /\ HandlerStep) =>
           /\ premium_users' = premium_users
           /\ (req.cmd = "info_command" /\ req.pc = "entry" /\ req'.pc # "done") =>
                 (req'.cmd = "_process_video_url" /\ ~req'.download) ]_vars

\* /info of a premium user for a video above every limit ends with the
\* information text.
C13_Witness ==
  /\ req.bot = "server" /\ req.pc = "done" /\ ~req.download
  /\ req.cmd = "_process_video_url"
  /\ req.user \in premium_users
  /\ req.video_info.file_size > max_file_size_premium
  /\ req.statusText = "info" /\ req.downloadCalls = 0

\* The supported domain strings, as the claim lists them.
C14_Domains ==
  { <<"y","o","u","t","u","b","e",".","c","o","m">>,
    <<"y","o","u","t","u",".","b","e">>,
    <<"v","k",".","c","o","m">>, <<"v","k",".","r","u">>,
    <<"t","i","k","t","o","k",".","c","o","m">>,
    <<"i","n","s","t","a","g","r","a","m",".","c","o","m">>,
    <<"t","w","i","t","t","e","r",".","c","o","m">>,
    <<"x",".","c","o","m">> }

\* Character a of a text equals character b of a domain up to case.
C14_SameLetter(a, b) ==
  a = b \/ \E k \in 1..Len(Letters) : Letters[k] = b /\ Capitals[k] = a

\* The text contains a supported domain, compared case-insensitively.
C14_Mentions(text) ==
  \E d \in C14_Domains : \E i \in 0..Len(text) :
    /\ i + Len(d) <= Len(text)
    /\ \A j \in 1..Len(d) : C14_SameLetter(text[i + j], d[j])

\* C14: handle_url of RenderVideoBot and ServerVideoBot passes a plain-text
\* message to _process_video_url (download mode) if and only if the text
\* contains one of the supported domains, compared case-insensitively; any
\* other text gets one 'no supported link' reply and no status message,
\* extraction or download.
C14_TextRouting ==
  /\ [][ ( /\ req.pc = "entry" /\ req.cmd = "handle_url"
           /\ req.bot \in {"render", "server"} /\ HandlerStep ) =>
           IF C14_Mentions(req.text)
             THEN /\ req'.cmd = "_process_video_url" /\ req'.download
                  /\ req'.text = req.text
                  /\ req'.pc = (IF req.bot = "render" THEN "r_start" ELSE "s_start")
             ELSE /\ req'.pc = "done" /\ req'.cmd = "handle_url"
                  /\ req'.replies = (IF req'.raised THEN 0 ELSE 1)
                  /\ ~req'.raised => req'.reply = "no_link" ]_vars
  /\ [] ( (req.cmd = "handle_url" /\ req.bot \in {"render", "server"}) =>
            /\ req.statusText = "none" /\ req.attempts = <<>>
            /\ req.altCalls = 0 /\ req.downloadCalls = 0 /\ req.sent = {} )

\* A text with "X.cOm" inside a sentence has reached _process_video_url.
C14_Witness ==
  /\ req.bot = "render" /\ req.pc = "r_start" /\ req.download
  /\ req.text = <<"a", " ", "X", ".", "C", "o", "M", "/", "a", "?", "b">>

\* Handlers in execution: the one the dispatcher runs, and one task for each
\* update the webhook view handed to process_update.
C15_Executing ==
  scheduled + (IF req.pc \in {"idle", "done"} THEN 0 ELSE 1)

C16_MissingEnvNoBot ==
  (program \in {"render_bot", "test_bot"} /\ ~(proc.token /\ proc.webhook_url)) =>
     /\ mainpc \in {"start", "returned"}
     /\ ~bot_instance /\ ~proc.webhook_set /\ ~proc.temp_dir
     /\ httpResp = NoResponse /\ scheduled = 0
     /\ req = ReqIdle

C16_Witness ==
  /\ program = "test_bot" /\ mainpc = "returned"
  /\ proc.token /\ ~proc.webhook_url /\ ~bot_instance

\* C17: when a bot process has shut down, its temporary directory and any
\* downloaded media left in it are removed.
C17_TempDirRemoved ==
  mainpc = "stopped" => (~proc.temp_dir /\ req.temp_dir = {})

\* C18: while the web server runs, GET /health is answered, with status 200
\* and 'healthy', whatever bot_instance, the outcome of the webhook
\* registration and the handler in progress are.
C18_HealthAlwaysHealthy ==
  /\ mainpc = "serving" => ENABLED Health
  /\ httpResp.path = "health" =>
        (httpResp.status = 200 /\ httpResp.resp = "healthy")

\* Answered while set_webhook had failed and a download is in progress.
C18_Witness ==
  /\ httpResp.path = "health" /\ httpResp.status = 200
  /\ ~proc.webhook_set /\ mainpc = "serving"
  /\ req.bot = "render" /\ req.pc = "r_download"

\* C19: when _download_video gave no video file, RenderVideoBot tries the
\* audio-only download: a finished handler (no call on the status message
\* having failed) has sent the audio, or shows the 'could not download' text
\* or the audio upload error.
C19_AudioFallback ==
  ( /\ req.bot = "render" /\ req.pc = "done" /\ req.downloadCalls = 1
    /\ ~HasVideo(req.result) /\ ~req.statusFailed ) =>
     \/ <<"audio", 0>> \in req.sent
     \/ req.statusText \in {"download_failed", "audio_send_error"}

\* The class the claim assigns to a message: the first of rate-limit, age,
\* live, unavailable, geo it matches.
C20_ClassOf(m) ==
  CASE "rate" \in m -> "rate_limited"
    [] "rate" \notin m /\ "age" \in m -> "age_restricted"
    [] {"rate", "age"} \cap m = {} /\ "live" \in m -> "live_content"
    [] {"rate", "age", "live"} \cap m = {} /\ "unavailable" \in m -> "unavailable"
    [] {"rate", "age", "live", "unavailable"} \cap m = {} /\ "geo" \in m -> "geo_blocked"
    [] m = {} -> "unclassified"

\* C20: in get_video_info a further preset is tried only after a failure
\* that is a rate-limit error or matches no keyword class; a failure of
\* class age_restricted, live_content, unavailable or geo_blocked returns
\* that error type at once, on whatever attempt; the class of a message is
\* the first it matches in the order rate-limit, age, live, unavailable, geo.
C20_RetryPolicy ==
  /\ [][ (req.pc = "r_getinfo" /\ Len(req'.attempts) = Len(req.attempts) + 1
           /\ req'.info1.kind # "info") =>
           LET c == C20_ClassOf(req'.failMsg)
               i == Len(req'.attempts)
           IN /\ c \in {"age_restricted", "live_content", "unavailable", "geo_blocked"}
                   => /\ req'.pc # "r_getinfo"
                      /\ req'.info1 = ErrorInfo(c)
              /\ req'.pc = "r_getinfo" =>
                   (c \in {"rate_limited", "unclassified"} /\ i < NumPresets)
              /\ (c \in {"rate_limited", "unclassified"} /\ i < NumPresets)
                   => req'.pc = "r_getinfo" ]_vars
  /\ [] ( (req.bot = "render" /\ Len(req.attempts) >= 2 /\ req.pc = "r_getinfo") =>
            C20_ClassOf(req.failMsg) \in {"rate_limited", "unclassified"} )
  /\ [] ( (req.bot = "render" /\ req.info1.kind = "error") =>
            /\ req.info1.error_type = C20_ClassOf(req.failMsg)
            /\ req.pc # "r_getinfo" )

\* The second preset failed with a message that names a private video and a
\* region: 'unavailable' wins, and the third preset is not tried.
C20_Witness ==
  /\ req.bot = "render" /\ req.attempts = <<1, 2>>
  /\ req.failMsg = {"unavailable", "geo"}
  /\ req.info1 = ErrorInfo("unavailable")
  /\ req.pc # "r_getinfo"

\* get_video_info of RenderVideoBot has returned (info1 is what it returned).
C21_Returned ==
  req.bot = "render" /\ req.attempts # <<>> /\ req.pc # "r_getinfo"

\* C21: get_video_info returns rate_limited exactly when the third preset
\* failed with a rate-limit error (the first two having failed with
\* rate-limit or unclassified errors); it returns None exactly when the
\* third preset failed with an unclassified error; a successful result has
\* 'attempt' equal to the index of the first preset that succeeded.
C21_ReturnValues ==
  /\ [] ( C21_Returned =>
            LET n == Len(req.attempts)
                failed == req.info1.kind # "info"
            IN /\ req.info1 = ErrorInfo("rate_limited")
                    <=> (failed /\ n = NumPresets /\ "rate" \in req.failMsg)
               /\ req.info1 = NoInfo
                    <=> (failed /\ n = NumPresets /\ req.failMsg = {})
               /\ req.info1.kind = "info"
                    => (req.attempt = n /\ \A k \in 1..n : req.attempts[k] = k)
               /\ failed => req.attempt = 0 )
  /\ [][ ( /\ HandlerStep /\ req.bot = "render" /\ req.attempts # <<>>
           /\ Len(req'.attempts) = Len(req.attempts) + 1 ) =>
           /\ req.pc = "r_getinfo" /\ req.info1 = NoInfo /\ req.attempt = 0
           /\ ("rate" \in req.failMsg \/ req.failMsg = {}) ]_vars

\* /status: rate-limited on all three presets.
C21_Witness ==
  /\ C21_Returned /\ req.cmd = "status_command"
  /\ req.attempts = <<1, 2, 3>> /\ "rate" \in req.failMsg
  /\ req.info1 = ErrorInfo("rate_limited")
  /\ req.statusText = "status_rate_limited"

\* _send_video_to_chat has a video file to send and chooses the way.
C22_AtChoice ==
  /\ req.bot = "server" /\ req.pc = "s_downloaded"
  /\ req.result.ok /\ VideoFile \in req.result.files

\* The request has gone the way of the parts / of the single video message.
C22_AsParts ==
  \/ req.pc \in {"s_split", "s_split_ret", "s_part", "s_parts_delete"}
  \/ req.parts_count > 0 \/ req.partLog # <<>>
  \/ \E f \in req.sent : f[1] = "part"

C22_AsOne == req.pc \in {"s_send_video", "s_single_delete"} \/ VideoFile \in req.sent

\* C22: _send_video_to_chat sends the downloaded video as split parts if and
\* only if the user was premium and the size on disk is strictly above
\* chunk_size; otherwise as one video message: a non-premium user never gets
\* parts and a file of exactly chunk_size is sent whole.
C22_SplitDecision ==
  /\ [][ (C22_AtChoice /\ HandlerStep) =>
           IF req.is_premium /\ req.diskSize > chunk_size
             THEN /\ req'.lastEdit = "splitting"
                  /\ req'.pc \in {"s_split", "s_send_except"}
             ELSE /\ req'.lastEdit = "sending"
                  /\ req'.pc \in {"s_send_video", "s_send_except"} ]_vars
  /\ [] ( req.bot = "server" =>
            /\ C22_AsParts => ( /\ req.is_premium /\ req.user \in premium_users
                                /\ req.diskSize > chunk_size )
            /\ C22_AsOne => ( /\ ~C22_AsParts
                              /\ (~req.is_premium \/ req.diskSize <= chunk_size) ) )

\* A premium user's file of exactly chunk_size arrived as one video.
C22_Witness ==
  /\ req.bot = "server" /\ req.pc = "done" /\ req.is_premium
  /\ req.diskSize = chunk_size /\ req.sent = {VideoFile}
  /\ req.statusText = "deleted"

\* What the claim says of the upload loop: the attempts are numbered 1, 2, ...
\* in order; an uploaded part is in the chat and no longer in temp_dir; a
\* failed attempt is followed by the attempt of the next part; after the loop
\* every part has been attempted.
C23_Loop ==
  req.bot = "server" =>
    /\ \A k \in 1..Len(req.partLog) :
         /\ req.partLog[k][1] = k
         /\ req.partLog[k][2] = "ok" =>
               (PartFile(k) \in req.sent /\ PartFile(k) \notin req.temp_dir)
         /\ req.partLog[k][2] = "failed" => PartFile(k) \notin req.sent
    /\ Len(req.partLog) <= Len(req.parts)
    /\ req.pc = "s_part" =>
         (req.part_i = Len(req.partLog) + 1 /\ req.part_i <= Len(req.parts))
    /\ (req.partLog # <<>> /\ req.pc # "s_part") =>
         Len(req.partLog) = Len(req.parts)

\* One iteration of the loop attempts exactly the next part and goes on to
\* the part after it, whatever the outcome of the upload.
C23_Iteration ==
  (req.bot = "server" /\ req.pc = "s_part" /\ HandlerStep) =>
     /\ req'.partLog = Append(req.partLog, req'.partLog[Len(req'.partLog)])
     /\ req'.partLog[Len(req'.partLog)][1] = req.part_i
     /\ req'.pc = (IF req.part_i < Len(req.parts) THEN "s_part" ELSE "s_parts_delete")

C24_Delivered ==
  IF req.parts # <<>>
    THEN \A k \in 1..Len(req.parts) : PartFile(k) \in req.sent
    ELSE VideoFile \in req.sent \/ <<"audio", 0>> \in req.sent

\* C24: in the download handlers of RenderVideoBot and ServerVideoBot the
\* status message is deleted only after the media has been delivered in full;
\* when a delivery that was begun fails or stays partial, the status message
\* is kept and (its own calls succeeding) shows an error text.
C24_DeleteAfterDelivery ==
  req.bot \in {"render", "server"} =>
    /\ req.statusText = "deleted" => C24_Delivered
    /\ ( /\ req.pc = "done" /\ req.download /\ ~req.statusFailed
         /\ req.lastEdit \in {"sending", "part_progress", "send_error", "split_error"}
         /\ ~C24_Delivered ) =>
           req.statusText \in RenderErrorTexts \cup ServerErrorTexts

\* The order of the steps of main, as pairs of positions.
C25_Order ==
  { <<"start", "created">>, <<"start", "returned">>, <<"created", "initialized">>,
    <<"initialized", "webhook_set">>, <<"webhook_set", "serving">>,
    <<"serving", "stopped">> }

C25_Follows(a, b) == <<a, b>> \in C25_Order

\* C25: render_bot.main and test_bot.main assign bot_instance, initialize
\* the application, attempt set_webhook and start the web-server thread in
\* this order; so every /webhook request the web server handles finds
\* bot_instance set and the application initialized: the branch for
\* bot_instance None is never taken.
C25_StartupOrder ==
  /\ [][ (program \in {"render_bot", "test_bot"}) =>
           /\ mainpc' # mainpc => C25_Follows(mainpc, mainpc')
           /\ bot_instance' # bot_instance =>
                 (mainpc = "start" /\ mainpc' = "created" /\ bot_instance')
           /\ proc'.webhook_set # proc.webhook_set =>
                 (mainpc = "initialized" /\ bot_instance)
           /\ httpResp' # httpResp =>
                 (mainpc = "serving" /\ bot_instance) ]_vars
  /\ [] ( program \in {"render_bot", "test_bot"} =>
            /\ mainpc \in {"created", "initialized", "webhook_set", "serving"}
                 => bot_instance
            /\ httpResp.path = "webhook" => (httpResp.inst /\ bot_instance) )

\* A webhook request handled by test_bot after set_webhook had failed.
C25_Witness ==
  /\ program = "test_bot" /\ mainpc = "serving" /\ ~proc.webhook_set
  /\ httpResp.path = "webhook" /\ httpResp.inst /\ httpResp.decoded

\* The coroutines of user u whose reply names `mode`.
C26_Tasks(u, mode) ==
  {k \in 1..Len(ptasks) : ptasks[k].user = u /\ ptasks[k].mode = mode}

\* C26: the toggle of premium_command is atomic: however the /premium
\* coroutines are interleaved at their awaits, the adds and removes of a user
\* alternate (never two adds or two removes in a row), remove never raises
\* KeyError, and membership is the parity of the user's toggles.
C26_AtomicToggle ==
  /\ \A k \in 1..Len(ptasks) : ~ptasks[k].keyError
  /\ \A u \in Users :
       LET adds == Cardinality(C26_Tasks(u, "mode_premium"))
           removes == Cardinality(C26_Tasks(u, "mode_regular"))
       IN /\ adds - removes = (IF u \in premium_users THEN 1 ELSE 0)
          /\ toggles[u] = adds + removes
          /\ u \in premium_users <=> toggles[u] % 2 = 1

\* Two /premium coroutines of one user suspended in reply_text at the same
\* time, a third not yet started.
C26_Witness ==
  /\ Len(ptasks) = 3
  /\ ptasks[1].user = ptasks[2].user /\ ptasks[3].user = ptasks[1].user
  /\ ptasks[1].pc = "reply" /\ ptasks[2].pc = "reply" /\ ptasks[3].pc = "start"
  /\ ptasks[1].mode # ptasks[2].mode
  /\ ptasks[1].user \notin premium_users

\* A handler of ServerVideoBot other than premium_command makes a step.
C27_OtherHandlerStep ==
  HandlerStep /\ req.bot = "server" /\ req.pc # "idle"

\* Positions of _process_video_url after `is_premium = ...` was assigned.
C27_AfterCheck ==
  req.bot = "server" /\ req.download
  /\ req.pc \in {"s_download", "s_downloaded", "s_split", "s_split_ret", "s_part",
                 "s_parts_delete", "s_send_video", "s_single_delete",
                 "s_send_except"}

\* C27: premium_users is changed by premium_command only, and only in the
\* membership of the calling user; start, help, ping, download, info and
\* plain-text handlers leave it unchanged whatever their outcome; within one
\* download request is_premium is read once, at the size check, and that
\* value decides the split.
C27_PremiumFrame ==
  /\ [][ premium_users' # premium_users =>
           /\ req.pc = "idle" /\ req'.cmd = "premium_command"
           /\ \A v \in Users \ {req'.user} :
                 (v \in premium_users') = (v \in premium_users)
           /\ (req'.user \in premium_users') = (req'.user \notin premium_users) ]_vars
  /\ [][ C27_OtherHandlerStep => premium_users' = premium_users ]_vars
  /\ [][ ( /\ C27_OtherHandlerStep /\ req.pc = "s_got_info" /\ req.download
           /\ req.video_info.kind = "info" ) =>
           req'.is_premium = (req.user \in premium_users) ]_vars
  /\ [][ (C27_OtherHandlerStep /\ C27_AfterCheck) =>
           /\ req'.is_premium = req.is_premium
           /\ (req.pc = "s_downloaded" /\ req'.pc = "s_split") => req.is_premium ]_vars

\* User 1 is premium and gets parts; user 2 has toggled twice and is not.
C27_Witness ==
  /\ req.bot = "server" /\ req.user = 1 /\ req.is_premium
  /\ premium_users = {1} /\ toggles[2] = 2
  /\ req.partLog # <<>> /\ req.pc = "done"

\* The handler holds the url it was given and is about to clean it.
C28_BeforeCleaning ==
  \/ req.bot = "render" /\ req.pc = "r_start"
  \/ req.bot = "render" /\ req.pc = "entry" /\ req.cmd = "check_command"
       /\ req.args > 0
  \/ req.bot = "test" /\ req.pc = "t_start"

\* The next statement passes req.text to the extraction library.
C28_AtExtraction ==
  \/ req.bot = "render" /\ req.pc = "r_getinfo" /\ req.attempts = <<>>
       /\ req.cmd # "status_command"
  \/ req.bot = "test" /\ req.pc = "t_test1"

\* The text before the first question mark of t (t itself if it has none).
C28_Head(t) ==
  LET n == CHOOSE n \in 0..Len(t) :
             /\ \A i \in 1..n : t[i] # "?"
             /\ n < Len(t) => t[n + 1] = "?"
  IN SubSeq(t, 1, n)

\* C28: RenderVideoBot (/download, /check, plain-text URL) and TestVideoBot
\* pass to the extraction the input text cut just before its first '?'
\* (unchanged without a '?'); cleaning is idempotent; all that follows the
\* first '?' is lost, the v=<id> of a watch URL included.
C28_CleanUrl ==
  /\ [][ (C28_BeforeCleaning /\ HandlerStep /\ req'.pc # "done") =>
           /\ C28_AtExtraction'
           /\ req'.text = C28_Head(req.text)
           /\ (\A i \in 1..Len(req.text) : req.text[i] # "?") => req'.text = req.text
         ]_vars
  /\ [] ( C28_AtExtraction =>
            /\ \A i \in 1..Len(req.text) : req.text[i] # "?"
            /\ CleanUrl(req.text) = req.text )

\* /check youtube.com/watch?v=a : the extraction gets youtube.com/watch.
C28_Witness ==
  /\ C28_AtExtraction /\ req.cmd = "check_command"
  /\ req.text = <<"y","o","u","t","u","b","e",".","c","o","m","/","w","a","t","c","h">>

\* C29: /check of RenderVideoBot reports 'Нельзя скачать' if and only if the
\* video is age-restricted, or is a live broadcast, or its reported size is
\* strictly above max_file_size; a finished stream does not change the
\* verdict.
C29_CheckVerdict ==
  ( /\ req.bot = "render" /\ req.cmd = "check_command" /\ req.pc = "done"
    /\ req.statusText \in {"chk_can", "chk_cannot"} ) =>
     ( req.statusText = "chk_cannot"
         <=> \/ "age" \in req.flags
             \/ "live" \in req.flags
             \/ req.video_info.file_size > max_file_size )

\* C30: the file size get_video_info reports on success is the size (filesize,
\* else filesize_approx) of the first entry of formats whose height is at most
\* 720 and whose size is known and non-zero; without such an entry it is the
\* info-level filesize, else filesize_approx, else 0.  (An entry without a
\* height key is read with the default height 0.)
C30_Size(d) == Or(Get(d.filesize, None), Get(d.filesize_approx, None))

C30_Contributes(fmt) ==
  /\ fmt.height # None
  /\ Get(fmt.height, Num(0)).v <= MaxHeight
  /\ Truthy(C30_Size(fmt))

C30_Stated(info) ==
  LET found == {i \in 1..Len(info.formats) : C30_Contributes(info.formats[i])}
      first == CHOOSE i \in found : \A j \in found : i <= j
  IN  IF found # {} THEN C30_Size(info.formats[first])
      ELSE IF Truthy(C30_Size(info)) THEN C30_Size(info)
      ELSE Num(0)

C30_ReportedSize ==
  req.pc = "gi_return" => req.file_size = C30_Stated(req.info)

=============================================================================
